---- MODULE Spec2Model ----
(***************************************************************************)
(* Auto-framing filter (source/filters/filter-autoframing.cpp).            *)
(*                                                                         *)
(* The model has two kinds of threads: the host thread, which runs the     *)
(* filter's callbacks (update, video_tick, video_render, the destructor)   *)
(* one at a time, and the workers of the thread pool, which run            *)
(* task_switch_provider.  A callback is split into steps only where it     *)
(* touches state shared with a worker (_provider_lock, _provider_ready,    *)
(* the task handle); everything between two such points is one step.       *)
(*                                                                         *)
(* The build modelled is the one with every NVIDIA feature macro defined,  *)
(* so that each `switch (_provider)` has its NVIDIA_FACEDETECTION case.     *)
(*                                                                         *)
(* Times are integers, TimeUnit units to the second.  Confidences are in   *)
(* tenths.  Of the values of the predicted-element map the model keeps the *)
(* motion-predicted position (mp_pos); the per-element filters decide no   *)
(* branch of the handlers modelled here and appear only where update()     *)
(* re-creates them.  predicted_elements holds the keys of the map.         *)
(*                                                                         *)
(* Six specifications share the variables.   Spec is the filter with its   *)
(* callbacks and the pool's workers; its tracking_tick leaves the frame    *)
(* composition out and its update() leaves the settings of the composition *)
(* and of the prediction as they are.  TrackSpec applies the two stages    *)
(* that change the track store, the aging of tracking_tick and the         *)
(* association of nvar_facedetection_process, to the stores earlier        *)
(* callbacks can leave.                                                    *)
(* EvictSpec is video_tick alone, taken again and again.  PredictSpec is   *)
(* video_tick over stores of moving tracks, for the motion prediction.     *)
(* FrameSpec applies the last block of tracking_tick, the frame            *)
(* composition, to the settings, filters and predicted elements it can     *)
(* meet, in exact fractions.  TuneSpec is update() over a store of tracks, *)
(* their predicted elements and the filters ticks have left behind.        *)
(***************************************************************************)
EXTENDS Integers, Sequences, FiniteSets, TLC

\* ------------------------------------------------------------------ bounds
\* Host callbacks started in one behaviour.
MaxOps == 5
\* Boxes the detector reports in one pass.
MaxDet == 2

\* --------------------------------------------------------------- constants
\* Units of model time in one second.
TimeUnit == 4
\* Worker threads of the pool.
NumWorkers == 2
\* Size of the filter target (obs_source_get_base_width/height).
FrameW == 8
FrameH == 6
\* The confidence floor .5 and the clamp 1.f, in tenths.
ConfFloor == 5
ConfMax == 10
\* 0.667f as MaxDstNum / MaxDstDen.
MaxDstNum == 667
MaxDstDen == 1000

Workers == 1..NumWorkers
Host == 0

\* tracking_provider
Providers == {"INVALID", "AUTOMATIC", "NVIDIA_FACEDETECTION"}

\* provider_priority[]
provider_priority == <<"NVIDIA_FACEDETECTION">>

\* Values of ST_KEY_TRACKING_FREQUENCY after conversion to a period, in units:
\* "0 s", "2 Hz", "1 s", "2 s".
FrequencyInputs == {0, 2, 4, 8}
\* Tick durations handed to video_tick, in units.
SecondsInputs == {1}

\* What the detector can report: rect = (x, y, z = width, w = height) and a
\* confidence.  One box per corner of the frame and one of low confidence.
DetectorBoxes ==
    { [x |-> 0, y |-> 0, z |-> 2, w |-> 2, confidence |-> 9],
      [x |-> 6, y |-> 4, z |-> 2, w |-> 2, confidence |-> 12],
      [x |-> 0, y |-> 0, z |-> 2, w |-> 2, confidence |-> 4] }

RECURSIVE SeqsUpTo(_, _)
SeqsUpTo(S, n) ==
    IF n = 0 THEN {<<>>}
    ELSE LET shorter == SeqsUpTo(S, n - 1)
         IN  shorter \cup {Append(s, b) : s \in shorter, b \in S}

\* The lists of boxes one detection pass can produce.
DetectorOutputs == SeqsUpTo(DetectorBoxes, MaxDet)

VARIABLES
    hpc,                      \* position of the host thread
    hreq,                     \* switch_provider's argument
    ops,                      \* host callbacks started so far
    provider,                 \* _provider
    provider_ui,              \* _provider_ui
    provider_ready,           \* _provider_ready
    provider_lock,            \* owner of _provider_lock, or -1
    provider_task,            \* _provider_task: a task id, or 0 for null
    tasks,                    \* every task pushed: status and switch_provider_data_t
    queue,                    \* the pool's queue of task ids
    wpc,                      \* position of each worker
    wtask,                    \* the task each worker runs, or 0
    nvidia_fx,                \* _nvidia_fx is non-null
    nvidia_available,         \* autoframing_factory::_nvidia_available
    track_frequency,          \* _track_frequency
    track_frequency_counter,  \* _track_frequency_counter
    dirty,                    \* _dirty
    tracked_elements,         \* _tracked_elements
    predicted_elements,       \* keys of _predicted_elements
    mp_pos,                   \* pred_el::mp_pos of each predicted element
    motion_prediction,        \* _motion_prediction
    next_id,                  \* identities handed out to track_el objects
    switch_failed,            \* history: the last finished switch task raised
    loads_since,              \* history: loads since the last switch request
    raised_since,             \* history: a load raised since the last switch request
    back_to_back,             \* history: last request found its predecessor unfinished
    detections,               \* TrackSpec: the boxes given to the last association
    frame                     \* FrameSpec: settings, frame-level filters, rectangle

vars == << hpc, hreq, ops, provider, provider_ui, provider_ready, provider_lock,
           provider_task, tasks, queue, wpc, wtask, nvidia_fx, nvidia_available,
           track_frequency, track_frequency_counter, dirty, tracked_elements,
           predicted_elements, mp_pos, motion_prediction, next_id, switch_failed,
           loads_since, raised_since, back_to_back, detections, frame >>

providerVars == << provider, provider_ui, provider_ready, provider_lock,
                   provider_task, tasks, queue, nvidia_fx >>
workerVars == << wpc, wtask >>
trackVars == << track_frequency, track_frequency_counter, dirty, tracked_elements,
                predicted_elements, mp_pos, next_id >>
historyVars == << switch_failed, loads_since, raised_since, back_to_back >>
\* What the callbacks of the provider protocol leave alone.
fixedVars == << nvidia_available, detections, frame, motion_prediction >>

TaskIds == 1..MaxOps
NoLock == -1

\* ------------------------------------------------------------- arithmetic
\* The float values of the frame composition are exact fractions << n, d >>
\* with d > 0, in lowest terms.
RECURSIVE Gcd(_, _)
Gcd(a, b) == IF b = 0 THEN a ELSE Gcd(b, a % b)

Abs(n) == IF n < 0 THEN -n ELSE n

Rat(n, d) ==
    LET sn == IF d < 0 THEN -n ELSE n
        sd == Abs(d)
        g == Gcd(Abs(sn), sd)
    IN  << sn \div g, sd \div g >>

RInt(n) == << n, 1 >>
RAdd(a, b) == Rat(a[1] * b[2] + b[1] * a[2], a[2] * b[2])
RSub(a, b) == Rat(a[1] * b[2] - b[1] * a[2], a[2] * b[2])
RMul(a, b) == Rat(a[1] * b[1], a[2] * b[2])
\* a / b for b # 0
RDiv(a, b) == Rat(a[1] * b[2], a[2] * b[1])
RLt(a, b) == a[1] * b[2] < b[1] * a[2]
RLe(a, b) == a[1] * b[2] <= b[1] * a[2]
RHalf(a) == Rat(a[1], 2 * a[2])
\* std::clamp(v, lo, hi)
RClamp(v, lo, hi) == IF RLt(v, lo) THEN lo ELSE IF RLt(hi, v) THEN hi ELSE v

\* a < x / y as the float comparison decides it: x / 0 is +inf, -inf or NaN,
\* and every comparison with NaN is false.
LtQuotient(a, x, y) ==
    IF y[1] > 0 THEN RLt(RMul(a, y), x)
    ELSE IF y[1] < 0 THEN RLt(x, RMul(a, y))
    ELSE x[1] > 0

\* x / y >= a as the float comparison decides it.
QuotientGe(x, y, a) ==
    IF y[1] > 0 THEN RLe(RMul(a, y), x)
    ELSE IF y[1] < 0 THEN RLe(x, RMul(a, y))
    ELSE x[1] > 0

\* util::math::kalman1D<float>{q, r, p, x}
Kalman(q, r, p, x) == [q |-> q, r |-> r, p |-> p, x |-> x]

\* The frame state the constructor leaves: _track_mode, _frame_aspect_ratio,
\* the four frame-level filters, _frame_pos and _frame_size; els is the
\* offset position, padded size and aspected size of each predicted element,
\* in map order; fed is the box the last tick took for the frame before the
\* frame-level filters (centre and size).
FrameConstructed ==
    [ mode |-> "SOLO",
      aspect |-> RInt(0),
      pos_x |-> Kalman(RInt(1), RInt(1), RInt(1), RInt(1)),
      pos_y |-> Kalman(RInt(1), RInt(1), RInt(1), RInt(1)),
      size_x |-> Kalman(RInt(1), RInt(1), RInt(1), RInt(1)),
      size_y |-> Kalman(RInt(1), RInt(1), RInt(1), RInt(1)),
      els |-> << >>,
      fed |-> [center |-> << RInt(0), RInt(0) >>, size |-> << RInt(0), RInt(0) >>],
      pos |-> << RInt(0), RInt(0) >>,
      size |-> << RInt(1), RInt(1) >>,
      ticks |-> 0 ]

\* ------------------------------------------------------------ construction
\* autoframing_instance::autoframing_instance, member initialisers.  The
\* load(data) at its end is the first Update of a behaviour.
Init ==
    /\ hpc = "idle"
    /\ hreq = "INVALID"
    /\ ops = 0
    /\ provider = "INVALID"
    /\ provider_ui = "INVALID"
    /\ provider_ready = FALSE
    /\ provider_lock = NoLock
    /\ provider_task = 0
    /\ tasks = [t \in TaskIds |-> [st |-> "none", spd |-> "INVALID"]]
    /\ queue = << >>
    /\ wpc = [w \in Workers |-> "idle"]
    /\ wtask = [w \in Workers |-> 0]
    /\ nvidia_fx = FALSE
    /\ nvidia_available = TRUE   \* the factory registers the filter only then
    /\ track_frequency = TimeUnit
    /\ track_frequency_counter = 0
    /\ dirty = TRUE
    /\ tracked_elements = << >>
    /\ predicted_elements = {}
    /\ mp_pos = << >>
    /\ motion_prediction = RInt(0)
    /\ next_id = 1
    /\ detections = << >>
    /\ frame = FrameConstructed
    /\ switch_failed = FALSE
    /\ loads_since = 0
    /\ raised_since = FALSE
    /\ back_to_back = FALSE

\* ------------------------------------------------------- pure computations
\* autoframing_factory::is_provider_available
is_provider_available(p) ==
    IF p = "NVIDIA_FACEDETECTION" THEN nvidia_available ELSE FALSE

\* autoframing_factory::find_ideal_provider
RECURSIVE FindIdealFrom(_)
FindIdealFrom(i) ==
    IF i > Len(provider_priority) THEN "INVALID"
    ELSE IF is_provider_available(provider_priority[i]) THEN provider_priority[i]
    ELSE FindIdealFrom(i + 1)

find_ideal_provider == FindIdealFrom(1)

\* Mutation of ResolveProvider: AUTOMATIC is passed on as it is.
ResolveProvider_Unresolved(cfg) == cfg

\* update(): the provider the settings ask for, AUTOMATIC resolved.
ResolveProvider(cfg) ==
    IF cfg = "AUTOMATIC" THEN find_ideal_provider ELSE cfg

\* tracking_tick: age >= 0.5f * (1.f / (1.f - _track_frequency)), for an age
\* and a period in units.  A period of one second divides by zero and gives
\* +infinity; a longer period gives a negative threshold.
AgeExceeds(age, f) ==
    IF f = TimeUnit THEN FALSE
    ELSE IF f > TimeUnit THEN TRUE
    ELSE 2 * age * (TimeUnit - f) >= TimeUnit * TimeUnit

\* vec2_dist, squared.
Dist2(a, b) == (a[1] - b[1]) * (a[1] - b[1]) + (a[2] - b[2]) * (a[2] - b[2])

\* nvar_facedetection_process: dst < max_dst, for a squared distance, where
\* max_dst = sqrtf(w * w + h * h) * 0.667f * (1.f / (1.f - _track_frequency)).
WithinMaxDst(d2, f) ==
    IF f = TimeUnit THEN TRUE
    ELSE IF f > TimeUnit THEN FALSE
    ELSE d2 * MaxDstDen * MaxDstDen * (TimeUnit - f) * (TimeUnit - f)
           < MaxDstNum * MaxDstNum * (FrameW * FrameW + FrameH * FrameH)
               * TimeUnit * TimeUnit

\* Mutation of PotentialMatches: the reported confidence is stored as it is,
\* without the clamp to 1.0.
RECURSIVE PotentialMatches_NoClamp(_, _)
PotentialMatches_NoClamp(dets, i) ==
    IF i > Len(dets) THEN << >>
    ELSE LET rect == dets[i]
             rest == PotentialMatches_NoClamp(dets, i + 1)
         IN  IF rect.confidence < ConfFloor THEN rest
             ELSE << [ pos        |-> << rect.x + rect.z \div 2, rect.y + rect.w \div 2 >>,
                       size       |-> << rect.z, rect.w >>,
                       vel        |-> << 0, 0 >>,
                       age        |-> 0,
                       confidence |-> rect.confidence ] >> \o rest

\* Mutation of PotentialMatches: no box is skipped for its confidence.
RECURSIVE PotentialMatches_AnyConfidence(_, _)
PotentialMatches_AnyConfidence(dets, i) ==
    IF i > Len(dets) THEN << >>
    ELSE LET rect == dets[i]
         IN  << [ pos        |-> << rect.x + rect.z \div 2, rect.y + rect.w \div 2 >>,
                  size       |-> << rect.z, rect.w >>,
                  vel        |-> << 0, 0 >>,
                  age        |-> 0,
                  confidence |-> IF rect.confidence > ConfMax THEN ConfMax
                                 ELSE rect.confidence ] >>
                 \o PotentialMatches_AnyConfidence(dets, i + 1)

\* nvar_facedetection_process, first loop: the boxes of enough confidence as
\* potential matches, in the detector's order.
RECURSIVE PotentialMatches(_, _)
PotentialMatches(dets, i) ==
    IF i > Len(dets) THEN << >>
    ELSE LET rect == dets[i]
             rest == PotentialMatches(dets, i + 1)
         IN  IF rect.confidence < ConfFloor THEN rest
             ELSE << [ pos        |-> << rect.x + rect.z \div 2, rect.y + rect.w \div 2 >>,
                       size       |-> << rect.z, rect.w >>,
                       vel        |-> << 0, 0 >>,
                       age        |-> 0,
                       confidence |-> IF rect.confidence > ConfMax THEN ConfMax
                                      ELSE rect.confidence ] >> \o rest

\* Mutation of ScanBoxes: the first box within max_dst is taken, not the
\* nearest.
RECURSIVE ScanBoxes_FirstInRange(_, _, _, _, _)
ScanBoxes_FirstInRange(boxes, pos, f, i, best) ==
    IF i > Len(boxes) THEN best
    ELSE IF best = 0 /\ WithinMaxDst(Dist2(boxes[i].pos, pos), f)
         THEN ScanBoxes_FirstInRange(boxes, pos, f, i + 1, i)
         ELSE ScanBoxes_FirstInRange(boxes, pos, f, i + 1, best)

\* nvar_facedetection_process, inner while loop: the index of the box matched
\* to a track at pos, 0 for boxes.end().  best is match_iter so far.
RECURSIVE ScanBoxes(_, _, _, _, _)
ScanBoxes(boxes, pos, f, i, best) ==
    IF i > Len(boxes) THEN best
    ELSE LET dst == Dist2(boxes[i].pos, pos)
             closer == IF best = 0 THEN WithinMaxDst(dst, f)
                       ELSE dst < Dist2(boxes[best].pos, pos)
         IN  IF closer /\ WithinMaxDst(dst, f)
             THEN ScanBoxes(boxes, pos, f, i + 1, i)
             ELSE ScanBoxes(boxes, pos, f, i + 1, best)

RemoveAt(s, i) == SubSeq(s, 1, i - 1) \o SubSeq(s, i + 1, Len(s))

\* Mutation of MatchTracks: the velocity is taken forwards, from the track's
\* position to the detection's.
RECURSIVE MatchTracks_ForwardVelocity(_, _, _, _)
MatchTracks_ForwardVelocity(tracks, boxes, f, k) ==
    IF k > Len(tracks) THEN [tracks |-> tracks, boxes |-> boxes]
    ELSE LET el == tracks[k]
             m  == ScanBoxes(boxes, el.pos, f, 1, 0)
         IN  IF m = 0 THEN MatchTracks_ForwardVelocity(tracks, boxes, f, k + 1)
             ELSE LET match == boxes[m]
                      upd == [el EXCEPT
                                !.vel = << match.pos[1] - el.pos[1],
                                           match.pos[2] - el.pos[2] >>,
                                !.pos = match.pos,
                                !.size = match.size,
                                !.age = 0,
                                !.confidence = match.confidence]
                  IN  MatchTracks_ForwardVelocity([tracks EXCEPT ![k] = upd],
                                                  RemoveAt(boxes, m), f, k + 1)

\* Mutation of MatchTracks: a matched box is not erased from the potential
\* matches.
RECURSIVE MatchTracks_KeepsBox(_, _, _, _)
MatchTracks_KeepsBox(tracks, boxes, f, k) ==
    IF k > Len(tracks) THEN [tracks |-> tracks, boxes |-> boxes]
    ELSE LET el == tracks[k]
             m  == ScanBoxes(boxes, el.pos, f, 1, 0)
         IN  IF m = 0 THEN MatchTracks_KeepsBox(tracks, boxes, f, k + 1)
             ELSE LET match == boxes[m]
                      upd == [el EXCEPT
                                !.vel = << el.pos[1] - match.pos[1],
                                           el.pos[2] - match.pos[2] >>,
                                !.pos = match.pos,
                                !.size = match.size,
                                !.age = 0,
                                !.confidence = match.confidence]
                  IN  MatchTracks_KeepsBox([tracks EXCEPT ![k] = upd], boxes, f, k + 1)

\* nvar_facedetection_process, loop over _tracked_elements from the k-th:
\* the tracks after matching and the boxes left over.
RECURSIVE MatchTracks(_, _, _, _)
MatchTracks(tracks, boxes, f, k) ==
    IF k > Len(tracks) THEN [tracks |-> tracks, boxes |-> boxes]
    ELSE LET el == tracks[k]
             m  == ScanBoxes(boxes, el.pos, f, 1, 0)
         IN  IF m = 0 THEN MatchTracks(tracks, boxes, f, k + 1)
             ELSE LET match == boxes[m]
                      upd == [el EXCEPT
                                !.vel = << el.pos[1] - match.pos[1],
                                           el.pos[2] - match.pos[2] >>,
                                !.pos = match.pos,
                                !.size = match.size,
                                !.age = 0,
                                !.confidence = match.confidence]
                  IN  MatchTracks([tracks EXCEPT ![k] = upd], RemoveAt(boxes, m), f, k + 1)

\* nvar_facedetection_process, last loop: every box left becomes a track.
RECURSIVE PushBoxes(_, _, _)
PushBoxes(tracks, boxes, id) ==
    IF boxes = << >> THEN tracks
    ELSE PushBoxes(Append(tracks, [id |-> id] @@ Head(boxes)), Tail(boxes), id + 1)

\* nvar_facedetection_process: the tracks after a pass that reported dets.
\* With _nvidia_fx null, or no box reported, nothing changes.
nvar_facedetection_process(tracks, dets, f, fx, id) ==
    IF ~fx \/ Len(dets) = 0 THEN tracks
    ELSE LET m == MatchTracks(tracks, PotentialMatches(dets, 1), f, 1)
         IN  PushBoxes(m.tracks, m.boxes, id)


\* Mutation of ErasePredicted: eviction leaves the predicted element behind.
ErasePredicted_Keeps(pred, id) == pred

\* tracking_tick: _predicted_elements.erase(key)
ErasePredicted(pred, id) == pred \ {id}

\* Mutation of AgeAndEvict: after erasing the first element the loop goes on
\* from the second, so the element that moved to the front is passed over.
RECURSIVE AgeAndEvict_SkipsAfterErase(_, _, _, _, _)
AgeAndEvict_SkipsAfterErase(tracks, pred, i, seconds, f) ==
    IF i > Len(tracks) THEN [tracks |-> tracks, pred |-> pred]
    ELSE LET aged == [tracks EXCEPT ![i].age = @ + seconds]
         IN  IF AgeExceeds(aged[i].age, f)
             THEN IF i = 1
                  THEN AgeAndEvict_SkipsAfterErase(Tail(aged),
                                                   ErasePredicted(pred, aged[1].id),
                                                   2, seconds, f)
                  ELSE AgeAndEvict_SkipsAfterErase(RemoveAt(aged, i),
                                                   ErasePredicted(pred, aged[i].id),
                                                   i, seconds, f)
             ELSE AgeAndEvict_SkipsAfterErase(aged, pred, i + 1, seconds, f)

\* tracking_tick, first block: the loop that ages and evicts, with iter at
\* the i-th element.
RECURSIVE AgeAndEvict(_, _, _, _, _)
AgeAndEvict(tracks, pred, i, seconds, f) ==
    IF i > Len(tracks) THEN [tracks |-> tracks, pred |-> pred]
    ELSE LET aged == [tracks EXCEPT ![i].age = @ + seconds]
         IN  IF AgeExceeds(aged[i].age, f)
             THEN IF i = 1
                  THEN \* erase, then reset to begin()
                       AgeAndEvict(Tail(aged), ErasePredicted(pred, aged[1].id),
                                   1, seconds, f)
                  ELSE \* copy, advance, erase the copy
                       AgeAndEvict(RemoveAt(aged, i), ErasePredicted(pred, aged[i].id),
                                   i, seconds, f)
             ELSE AgeAndEvict(aged, pred, i + 1, seconds, f)

TrackIds(tracks) == {tracks[i].id : i \in 1..Len(tracks)}

\* tracking_tick, second block: a predicted element for every track that has
\* none (insert_or_assign).
InsertPredicted(pred, tracks) == pred \cup TrackIds(tracks)

\* The track a key of the predicted map points to.
TrackOf(tracks, id) == tracks[CHOOSE i \in 1..Len(tracks) : tracks[i].id = id]

\* A position of whole pixels as a pair of fractions.
RPos(pos) == << RInt(pos[1]), RInt(pos[2]) >>

\* vec2_mulf(vel, _motion_prediction); vec2_mulf(vel, seconds);
\* vec2_add(pos, vel), on one axis: x + v * gain * seconds, for a fraction x,
\* a whole velocity, a fraction gain and a tick of seconds units, as one
\* fraction.
Advance(x, v, gain, seconds) ==
    Rat(x[1] * gain[2] * TimeUnit + v * gain[1] * seconds * x[2],
        x[2] * gain[2] * TimeUnit)

\* Mutation of MotionPredict: every tick restarts from the detected position.
MotionPredict_AlwaysRestarts(tracks, mp, gain, seconds) ==
    [id \in TrackIds(tracks) |->
        LET trck == TrackOf(tracks, id)
            pos == RPos(trck.pos)
        IN  << Advance(pos[1], trck.vel[1], gain, seconds),
               Advance(pos[2], trck.vel[2], gain, seconds) >>]

\* tracking_tick, second block, "Calculate absolute velocity": mp_pos of
\* every track after the aging, from the elements' mp_pos before the tick.
\* vel is scaled by _motion_prediction and by seconds; the base is the
\* element's mp_pos when the track is older than the tick and the track's
\* position otherwise.  An element created in this tick belongs to a track
\* made by a detection pass; its mp_pos would be read uninitialised, and the
\* function is not defined there.
MotionPredict(tracks, mp, gain, seconds) ==
    [id \in TrackIds(tracks) |->
        LET trck == TrackOf(tracks, id)
            pos == IF trck.age > seconds THEN mp[id] ELSE RPos(trck.pos)
        IN  << Advance(pos[1], trck.vel[1], gain, seconds),
               Advance(pos[2], trck.vel[2], gain, seconds) >>]

\* -------------------------------------------------------------- thread pool
\* util::threadpool::push: a new task at the end of the queue.
threadpool_push(t, spd) ==
    /\ tasks' = [tasks EXCEPT ![t] = [st |-> "queued", spd |-> spd]]
    /\ queue' = Append(queue, t)

\* util::threadpool::pop: a task still queued is removed and cancelled; one a
\* worker has already taken is left to run.
threadpool_pop(t) ==
    IF tasks[t].st = "queued"
    THEN /\ tasks' = [tasks EXCEPT ![t].st = "cancelled"]
         /\ queue' = SelectSeq(queue, LAMBDA q : q # t)
    ELSE UNCHANGED << tasks, queue >>

\* util::threadpool::task::await_completion returns once the task has run to
\* its end or was cancelled.
await_completion(t) == tasks[t].st \in {"done", "cancelled"}

\* A worker takes the task at the head of the queue and calls its callback.
WorkerTake(w) ==
    /\ wpc[w] = "idle"
    /\ queue # << >>
    /\ wtask' = [wtask EXCEPT ![w] = Head(queue)]
    /\ wpc' = [wpc EXCEPT ![w] = "t_begin"]
    /\ tasks' = [tasks EXCEPT ![Head(queue)].st = "running"]
    /\ queue' = Tail(queue)
    /\ UNCHANGED << hpc, hreq, ops, provider, provider_ui, provider_ready,
                    provider_lock, provider_task, nvidia_fx, fixedVars >>
    /\ UNCHANGED << trackVars, historyVars >>


\* Mutation of TaskBegin: the ready flag is not cleared when the task starts.
TaskBegin_KeepsReady(w) ==
    /\ wpc[w] = "t_begin"
    /\ wpc' = [wpc EXCEPT ![w] = "t_lock"]
    /\ UNCHANGED << hpc, hreq, ops, providerVars, wtask, fixedVars >>
    /\ UNCHANGED << trackVars, historyVars >>

\* ---------------------------------------------------- task_switch_provider
\* _provider_ready = false, before the lock is taken.
TaskBegin(w) ==
    /\ wpc[w] = "t_begin"
    /\ provider_ready' = FALSE
    /\ wpc' = [wpc EXCEPT ![w] = "t_lock"]
    /\ UNCHANGED << hpc, hreq, ops, provider, provider_ui, provider_lock,
                    provider_task, tasks, queue, wtask, nvidia_fx, fixedVars >>
    /\ UNCHANGED << trackVars, historyVars >>


\* Mutation of TaskLock: the task does not wait for _provider_lock.
TaskLock_NoWait(w) ==
    /\ wpc[w] = "t_lock"
    /\ provider_lock' = w
    /\ wpc' = [wpc EXCEPT ![w] = "t_unload"]
    /\ UNCHANGED << hpc, hreq, ops, provider, provider_ui, provider_ready,
                    provider_task, tasks, queue, wtask, nvidia_fx, fixedVars >>
    /\ UNCHANGED << trackVars, historyVars >>

\* std::unique_lock<std::mutex> ul(_provider_lock)
TaskLock(w) ==
    /\ wpc[w] = "t_lock"
    /\ provider_lock = NoLock
    /\ provider_lock' = w
    /\ wpc' = [wpc EXCEPT ![w] = "t_unload"]
    /\ UNCHANGED << hpc, hreq, ops, provider, provider_ui, provider_ready,
                    provider_task, tasks, queue, wtask, nvidia_fx, fixedVars >>
    /\ UNCHANGED << trackVars, historyVars >>

\* switch (spd->provider): unload the previous provider.
TaskUnload(w) ==
    /\ wpc[w] = "t_unload"
    /\ nvidia_fx' = IF tasks[wtask[w]].spd = "NVIDIA_FACEDETECTION" THEN FALSE
                    ELSE nvidia_fx
    /\ wpc' = [wpc EXCEPT ![w] = "t_load"]
    /\ UNCHANGED << hpc, hreq, ops, provider, provider_ui, provider_ready,
                    provider_lock, provider_task, tasks, queue, wtask,
                    fixedVars >>
    /\ UNCHANGED << trackVars, historyVars >>

\* The end of the task, whichever way the try block was left: the lock is
\* released and the pool marks the task completed.
TaskReturn(w) ==
    /\ provider_lock' = NoLock
    /\ tasks' = [tasks EXCEPT ![wtask[w]].st = "done"]
    /\ wtask' = [wtask EXCEPT ![w] = 0]
    /\ wpc' = [wpc EXCEPT ![w] = "idle"]


\* Mutation of TaskLoad: the load switches on spd->provider, the provider
\* being left, instead of _provider.
TaskLoad_LoadsPrevious(w) ==
    /\ wpc[w] = "t_load"
    /\ nvidia_fx' = IF tasks[wtask[w]].spd = "NVIDIA_FACEDETECTION" THEN TRUE
                    ELSE nvidia_fx
    /\ provider_ready' = TRUE
    /\ TaskReturn(w)
    /\ loads_since' = IF tasks[wtask[w]].spd = "NVIDIA_FACEDETECTION"
                      THEN loads_since + 1 ELSE loads_since
    /\ switch_failed' = FALSE
    /\ UNCHANGED << hpc, hreq, ops, provider, provider_ui, provider_task, queue,
                    fixedVars, raised_since, back_to_back >>
    /\ UNCHANGED trackVars

\* switch (_provider): load the new provider; _provider_ready = true.
TaskLoad(w) ==
    /\ wpc[w] = "t_load"
    /\ nvidia_fx' = IF provider = "NVIDIA_FACEDETECTION" THEN TRUE ELSE nvidia_fx
    /\ provider_ready' = TRUE
    /\ TaskReturn(w)
    /\ loads_since' = IF provider = "NVIDIA_FACEDETECTION" THEN loads_since + 1
                      ELSE loads_since
    /\ switch_failed' = FALSE
    /\ UNCHANGED << hpc, hreq, ops, provider, provider_ui, provider_task, queue,
                    fixedVars, raised_since, back_to_back >>
    /\ UNCHANGED trackVars

\* nvar_facedetection_unload raises inside the try block, after the reset
\* of _nvidia_fx has begun; the catch block logs and the task ends.
TaskUnloadRaise(w) ==
    /\ wpc[w] = "t_unload"
    /\ tasks[wtask[w]].spd = "NVIDIA_FACEDETECTION"
    /\ nvidia_fx' = FALSE
    /\ TaskReturn(w)
    /\ switch_failed' = TRUE
    /\ raised_since' = TRUE
    /\ UNCHANGED << hpc, hreq, ops, provider, provider_ui, provider_ready,
                    provider_task, queue, fixedVars, loads_since,
                    back_to_back >>
    /\ UNCHANGED trackVars

\* nvar_facedetection_load raises, in the constructor of the backend
\* (_nvidia_fx keeps its value) or in nvar_facedetection_update after the
\* assignment; the catch block logs and the task ends.
TaskLoadRaise(w) ==
    /\ wpc[w] = "t_load"
    /\ provider = "NVIDIA_FACEDETECTION"
    /\ \E assigned \in BOOLEAN : nvidia_fx' = (nvidia_fx \/ assigned)
    /\ TaskReturn(w)
    /\ switch_failed' = TRUE
    /\ raised_since' = TRUE
    /\ UNCHANGED << hpc, hreq, ops, provider, provider_ui, provider_ready,
                    provider_task, queue, fixedVars, loads_since,
                    back_to_back >>
    /\ UNCHANGED trackVars

WorkerNext ==
    \E w \in Workers :
        \/ WorkerTake(w)
        \/ TaskBegin(w)
        \/ TaskLock(w)
        \/ TaskUnload(w)
        \/ TaskUnloadRaise(w)
        \/ TaskLoad(w)
        \/ TaskLoadRaise(w)

\* ------------------------------------------------------------------ update
\* update(): the tracking period and the counter reset, then the provider
\* the settings name; a change of provider calls switch_provider.
Update ==
    /\ hpc = "idle"
    /\ ops < MaxOps
    /\ ops' = ops + 1
    /\ \E f \in FrequencyInputs, cfg \in Providers :
         /\ track_frequency' = f
         /\ track_frequency_counter' = 0
         /\ IF ResolveProvider(cfg) # provider
            THEN /\ provider_ui' = ResolveProvider(cfg)
                 /\ hreq' = ResolveProvider(cfg)
                 /\ hpc' = "sw_lock"
                 /\ back_to_back' = (/\ provider_task # 0
                                     /\ tasks[provider_task].st \in {"queued", "running"})
                 /\ raised_since' = FALSE
            ELSE /\ hpc' = "up_ready"
                 /\ UNCHANGED << provider_ui, hreq, back_to_back, raised_since >>
    /\ UNCHANGED << provider, provider_ready, provider_lock, provider_task, tasks,
                    queue, nvidia_fx, fixedVars, workerVars >>
    /\ UNCHANGED << dirty, tracked_elements, predicted_elements, mp_pos, next_id,
                    switch_failed, loads_since >>

\* switch_provider: the lock, and the safeguard against an unchanged provider.
SwitchLock ==
    /\ hpc = "sw_lock"
    /\ provider_lock = NoLock
    /\ IF hreq = provider
       THEN /\ hpc' = "up_ready"
            /\ UNCHANGED provider_lock
       ELSE /\ provider_lock' = Host
            /\ hpc' = IF provider_task # 0 THEN "sw_pop" ELSE "sw_push"
    /\ UNCHANGED << hreq, ops, provider, provider_ui, provider_ready, provider_task,
                    tasks, queue, nvidia_fx, fixedVars, workerVars >>
    /\ UNCHANGED << trackVars, historyVars >>

\* switch_provider: streamfx::threadpool()->pop(_provider_task)
SwitchPop ==
    /\ hpc = "sw_pop"
    /\ threadpool_pop(provider_task)
    /\ hpc' = "sw_await"
    /\ UNCHANGED << hreq, ops, provider, provider_ui, provider_ready, provider_lock,
                    provider_task, nvidia_fx, fixedVars, workerVars >>
    /\ UNCHANGED << trackVars, historyVars >>


\* Mutation of SwitchAwait: the previous task is not awaited.
SwitchAwait_NoWait ==
    /\ hpc = "sw_await"
    /\ provider_task' = 0
    /\ hpc' = "sw_push"
    /\ UNCHANGED << hreq, ops, provider, provider_ui, provider_ready, provider_lock,
                    tasks, queue, nvidia_fx, fixedVars, workerVars >>
    /\ UNCHANGED << trackVars, historyVars >>

\* switch_provider: _provider_task->await_completion(); _provider_task.reset()
SwitchAwait ==
    /\ hpc = "sw_await"
    /\ await_completion(provider_task)
    /\ provider_task' = 0
    /\ hpc' = "sw_push"
    /\ UNCHANGED << hreq, ops, provider, provider_ui, provider_ready, provider_lock,
                    tasks, queue, nvidia_fx, fixedVars, workerVars >>
    /\ UNCHANGED << trackVars, historyVars >>

NewTaskId == 1 + Cardinality({t \in TaskIds : tasks[t].st # "none"})

\* switch_provider: spd->provider = _provider; _provider = provider; push.
SwitchPush ==
    /\ hpc = "sw_push"
    /\ threadpool_push(NewTaskId, provider)
    /\ provider' = hreq
    /\ provider_task' = NewTaskId
    /\ provider_lock' = NoLock
    /\ hpc' = "up_ready"
    /\ loads_since' = 0
    /\ UNCHANGED << hreq, ops, provider_ui, provider_ready, nvidia_fx,
                    fixedVars, workerVars >>
    /\ UNCHANGED << trackVars, switch_failed, raised_since, back_to_back >>

\* update(), after the switch: if (_provider_ready) { lock; nvar_facedetection_update }
UpdateReady ==
    /\ hpc = "up_ready"
    /\ hpc' = IF provider_ready THEN "up_lock" ELSE "idle"
    /\ UNCHANGED << hreq, ops, providerVars, fixedVars, workerVars >>
    /\ UNCHANGED << trackVars, historyVars >>

\* update(): the lock is taken, the backend's tracking limit set, the lock
\* released.
UpdateLock ==
    /\ hpc = "up_lock"
    /\ provider_lock = NoLock
    /\ hpc' = "idle"
    /\ UNCHANGED << hreq, ops, providerVars, fixedVars, workerVars >>
    /\ UNCHANGED << trackVars, historyVars >>

\* -------------------------------------------------------------- video_tick
\* Mutation of tracking_tick: the aging loop is left out.
tracking_tick_SkipsAging(seconds) ==
    /\ tracked_elements' = tracked_elements
    /\ predicted_elements' = InsertPredicted(predicted_elements, tracked_elements)
    /\ mp_pos' = MotionPredict(tracked_elements, mp_pos, motion_prediction, seconds)
    /\ track_frequency_counter' = track_frequency_counter + seconds

\* tracking_tick: aging and eviction, the predicted elements, the counter.
tracking_tick(seconds) ==
    LET aged == AgeAndEvict(tracked_elements, predicted_elements, 1, seconds,
                            track_frequency)
    IN  /\ tracked_elements' = aged.tracks
        /\ predicted_elements' = InsertPredicted(aged.pred, aged.tracks)
        /\ mp_pos' = MotionPredict(aged.tracks, mp_pos, motion_prediction, seconds)
        /\ track_frequency_counter' = track_frequency_counter + seconds

\* video_tick
VideoTick ==
    /\ hpc = "idle"
    /\ ops < MaxOps
    /\ ops' = ops + 1
    /\ \E seconds \in SecondsInputs : tracking_tick(seconds)
    /\ dirty' = TRUE
    /\ UNCHANGED << hpc, hreq, providerVars, fixedVars, workerVars >>
    /\ UNCHANGED << track_frequency, next_id, historyVars >>


\* Mutation of VideoRender: the readiness of the provider is not tested.
VideoRender_NoReadyCheck ==
    /\ hpc = "idle"
    /\ ops < MaxOps
    /\ ops' = ops + 1
    /\ \E target_ok \in BOOLEAN, captured \in BOOLEAN :
         IF ~target_ok \/ ~dirty \/ ~captured
         THEN UNCHANGED << hpc, track_frequency_counter, dirty >>
         ELSE IF track_frequency_counter >= track_frequency
         THEN /\ track_frequency_counter' = 0
              /\ hpc' = "r_lock"
              /\ UNCHANGED dirty
         ELSE /\ dirty' = FALSE
              /\ UNCHANGED << hpc, track_frequency_counter >>
    /\ UNCHANGED << hreq, providerVars, fixedVars, workerVars >>
    /\ UNCHANGED << track_frequency, tracked_elements, predicted_elements, mp_pos, next_id,
                    historyVars >>

\* ------------------------------------------------------------ video_render
\* Mutation of VideoRender: the counter is not compared with the period.
VideoRender_NoPeriodTest ==
    /\ hpc = "idle"
    /\ ops < MaxOps
    /\ ops' = ops + 1
    /\ \E target_ok \in BOOLEAN, captured \in BOOLEAN :
         IF ~provider_ready \/ ~target_ok
         THEN \* obs_source_skip_video_filter; return
              UNCHANGED << hpc, track_frequency_counter, dirty >>
         ELSE IF ~dirty
         THEN \* only the draw
              UNCHANGED << hpc, track_frequency_counter, dirty >>
         ELSE IF ~captured
         THEN UNCHANGED << hpc, track_frequency_counter, dirty >>
         ELSE IF TRUE
         THEN /\ track_frequency_counter' = 0
              /\ hpc' = "r_lock"
              /\ UNCHANGED dirty
         ELSE /\ dirty' = FALSE
              /\ UNCHANGED << hpc, track_frequency_counter >>
    /\ UNCHANGED << hreq, providerVars, fixedVars, workerVars >>
    /\ UNCHANGED << track_frequency, tracked_elements, predicted_elements, mp_pos, next_id,
                    historyVars >>

\* video_render up to the lock: the readiness check, the capture of the
\* input (which the host may refuse) and the test of the counter.
VideoRender ==
    /\ hpc = "idle"
    /\ ops < MaxOps
    /\ ops' = ops + 1
    /\ \E target_ok \in BOOLEAN, captured \in BOOLEAN :
         IF ~provider_ready \/ ~target_ok
         THEN \* obs_source_skip_video_filter; return
              UNCHANGED << hpc, track_frequency_counter, dirty >>
         ELSE IF ~dirty
         THEN \* only the draw
              UNCHANGED << hpc, track_frequency_counter, dirty >>
         ELSE IF ~captured
         THEN UNCHANGED << hpc, track_frequency_counter, dirty >>
         ELSE IF track_frequency_counter >= track_frequency
         THEN /\ track_frequency_counter' = 0
              /\ hpc' = "r_lock"
              /\ UNCHANGED dirty
         ELSE /\ dirty' = FALSE
              /\ UNCHANGED << hpc, track_frequency_counter >>
    /\ UNCHANGED << hreq, providerVars, fixedVars, workerVars >>
    /\ UNCHANGED << track_frequency, tracked_elements, predicted_elements, mp_pos, next_id,
                    historyVars >>

\* video_render: std::unique_lock<std::mutex> ul(_provider_lock)
RenderLock ==
    /\ hpc = "r_lock"
    /\ provider_lock = NoLock
    /\ provider_lock' = Host
    /\ hpc' = "r_process"
    /\ UNCHANGED << hreq, ops, provider, provider_ui, provider_ready, provider_task,
                    tasks, queue, nvidia_fx, fixedVars, workerVars >>
    /\ UNCHANGED << trackVars, historyVars >>

\* Mutation of RenderProcess: the pass is followed by the prediction stage.
RenderProcess_ThenPredict ==
    /\ hpc = "r_process"
    /\ IF provider = "NVIDIA_FACEDETECTION"
       THEN /\ \E dets \in DetectorOutputs :
                 tracked_elements' =
                     nvar_facedetection_process(tracked_elements, dets,
                                                track_frequency, nvidia_fx, next_id)
            /\ next_id' = next_id + (Len(tracked_elements') - Len(tracked_elements))
            /\ predicted_elements' = TrackIds(tracked_elements')
            /\ UNCHANGED mp_pos
            /\ dirty' = FALSE
       ELSE \* default: obs_source_skip_video_filter; return
            UNCHANGED << tracked_elements, next_id, dirty, predicted_elements, mp_pos >>
    /\ provider_lock' = NoLock
    /\ hpc' = "idle"
    /\ UNCHANGED << hreq, ops, provider, provider_ui, provider_ready, provider_task,
                    tasks, queue, nvidia_fx, fixedVars, workerVars >>
    /\ UNCHANGED << track_frequency, track_frequency_counter, historyVars >>

\* video_render: switch (_provider) under the lock, then _dirty = false.
RenderProcess ==
    /\ hpc = "r_process"
    /\ IF provider = "NVIDIA_FACEDETECTION"
       THEN /\ \E dets \in DetectorOutputs :
                 tracked_elements' =
                     nvar_facedetection_process(tracked_elements, dets,
                                                track_frequency, nvidia_fx, next_id)
            /\ next_id' = next_id + (Len(tracked_elements') - Len(tracked_elements))
            /\ dirty' = FALSE
       ELSE \* default: obs_source_skip_video_filter; return
            UNCHANGED << tracked_elements, next_id, dirty >>
    /\ provider_lock' = NoLock
    /\ hpc' = "idle"
    /\ UNCHANGED << hreq, ops, provider, provider_ui, provider_ready, provider_task,
                    tasks, queue, nvidia_fx, fixedVars, workerVars >>
    /\ UNCHANGED << track_frequency, track_frequency_counter, predicted_elements, mp_pos,
                    historyVars >>

\* -------------------------------------------------- ~autoframing_instance
\* The destructor starts.
Destroy ==
    /\ hpc = "idle"
    /\ ops < MaxOps
    /\ ops' = ops + 1
    /\ hpc' = "d_lock"
    /\ UNCHANGED << hreq, providerVars, fixedVars, workerVars >>
    /\ UNCHANGED << trackVars, historyVars >>

\* std::unique_lock<std::mutex> ul(_provider_lock)
DestructorLock ==
    /\ hpc = "d_lock"
    /\ provider_lock = NoLock
    /\ provider_lock' = Host
    /\ hpc' = IF provider_task # 0 THEN "d_pop" ELSE "d_unload"
    /\ UNCHANGED << hreq, ops, provider, provider_ui, provider_ready, provider_task,
                    tasks, queue, nvidia_fx, fixedVars, workerVars >>
    /\ UNCHANGED << trackVars, historyVars >>

\* streamfx::threadpool()->pop(_provider_task)
DestructorPop ==
    /\ hpc = "d_pop"
    /\ threadpool_pop(provider_task)
    /\ hpc' = "d_await"
    /\ UNCHANGED << hreq, ops, provider, provider_ui, provider_ready, provider_lock,
                    provider_task, nvidia_fx, fixedVars, workerVars >>
    /\ UNCHANGED << trackVars, historyVars >>


\* Mutation of DestructorAwait: the outstanding task is not awaited.
DestructorAwait_NoWait ==
    /\ hpc = "d_await"
    /\ provider_task' = 0
    /\ hpc' = "d_unload"
    /\ UNCHANGED << hreq, ops, provider, provider_ui, provider_ready, provider_lock,
                    tasks, queue, nvidia_fx, fixedVars, workerVars >>
    /\ UNCHANGED << trackVars, historyVars >>

\* _provider_task->await_completion(); _provider_task.reset()
DestructorAwait ==
    /\ hpc = "d_await"
    /\ await_completion(provider_task)
    /\ provider_task' = 0
    /\ hpc' = "d_unload"
    /\ UNCHANGED << hreq, ops, provider, provider_ui, provider_ready, provider_lock,
                    tasks, queue, nvidia_fx, fixedVars, workerVars >>
    /\ UNCHANGED << trackVars, historyVars >>

\* switch (_provider): nvar_facedetection_unload(); the lock is released.
DestructorUnload ==
    /\ hpc = "d_unload"
    /\ nvidia_fx' = IF provider = "NVIDIA_FACEDETECTION" THEN FALSE ELSE nvidia_fx
    /\ provider_lock' = NoLock
    /\ hpc' = "destroyed"
    /\ UNCHANGED << hreq, ops, provider, provider_ui, provider_ready, provider_task,
                    tasks, queue, fixedVars, workerVars >>
    /\ UNCHANGED << trackVars, historyVars >>

\* The steps that continue a callback the host thread is inside.
HostContinue ==
    \/ SwitchLock
    \/ SwitchPop
    \/ SwitchAwait
    \/ SwitchPush
    \/ UpdateReady
    \/ UpdateLock
    \/ RenderLock
    \/ RenderProcess
    \/ DestructorLock
    \/ DestructorPop
    \/ DestructorAwait
    \/ DestructorUnload

\* The callbacks the host may start.
HostStart ==
    \/ Update
    \/ VideoTick
    \/ VideoRender
    \/ Destroy

Next == HostStart \/ HostContinue \/ WorkerNext

Spec == Init /\ [][Next]_vars

\* The pool runs a queued task when a worker is free, a running task is
\* scheduled, load and unload return, and a callback once entered runs on.
FairSpec == Spec /\ WF_vars(WorkerNext) /\ WF_vars(HostContinue)

\* ----------------------------------------------------- the tracking stages
\* The stages of the tracker applied to the stores a long run can leave:
\* tracks of any age at any position, in any order.
TrackInputs ==
    { [pos |-> p, age |-> a] : p \in {<< 1, 1 >>, << 3, 1 >>, << 7, 5 >>},
                              a \in {0, 3} }

\* A store holding the given tracks, with the identities 1, 2, ...
StoreOf(ts) ==
    [i \in 1..Len(ts) |-> [id         |-> i,
                           pos        |-> ts[i].pos,
                           size       |-> << 2, 2 >>,
                           vel        |-> << 0, 0 >>,
                           age        |-> ts[i].age,
                           confidence |-> 9]]

StoreInputs == {StoreOf(ts) : ts \in SeqsUpTo(TrackInputs, 3)}

\* The last callback of a behaviour meets such a store.  Tracks of age 0 were
\* made or matched by a pass after the last tick; of those, the made ones
\* have no predicted element.
Init_Track ==
    /\ hpc = "idle"
    /\ hreq = "INVALID"
    /\ ops = MaxOps - 1
    /\ provider = "INVALID"
    /\ provider_ui = "INVALID"
    /\ provider_ready = FALSE
    /\ provider_lock = NoLock
    /\ provider_task = 0
    /\ tasks = [t \in TaskIds |-> [st |-> "none", spd |-> "INVALID"]]
    /\ queue = << >>
    /\ wpc = [w \in Workers |-> "idle"]
    /\ wtask = [w \in Workers |-> 0]
    /\ nvidia_fx = FALSE
    /\ nvidia_available = TRUE
    /\ track_frequency \in FrequencyInputs
    /\ track_frequency_counter = 0
    /\ dirty = FALSE
    /\ tracked_elements \in StoreInputs
    /\ predicted_elements \in
          { TrackIds(tracked_elements),
            {tracked_elements[i].id : i \in {j \in 1..Len(tracked_elements) :
                                                tracked_elements[j].age > 0}} }
    /\ mp_pos = [id \in predicted_elements |-> RPos(TrackOf(tracked_elements, id).pos)]
    /\ motion_prediction = RInt(0)
    /\ next_id = Len(tracked_elements) + 1
    /\ detections = << >>
    /\ frame = FrameConstructed
    /\ switch_failed = FALSE
    /\ loads_since = 0
    /\ raised_since = FALSE
    /\ back_to_back = FALSE

\* nvar_facedetection_process with a backend that reports dets.
AssociationPass ==
    /\ hpc = "idle"
    /\ ops < MaxOps
    /\ ops' = ops + 1
    /\ \E dets \in DetectorOutputs :
         /\ detections' = dets
         /\ tracked_elements' =
                nvar_facedetection_process(tracked_elements, dets, track_frequency,
                                           TRUE, next_id)
    /\ next_id' = next_id + (Len(tracked_elements') - Len(tracked_elements))
    /\ dirty' = FALSE
    /\ UNCHANGED << hpc, hreq, providerVars, nvidia_available, frame,
                    motion_prediction, workerVars >>
    /\ UNCHANGED << track_frequency, track_frequency_counter, predicted_elements, mp_pos,
                    historyVars >>

Next_Track == VideoTick \/ AssociationPass

TrackSpec == Init_Track /\ [][Next_Track]_vars

\* --------------------------------------------------- ticks without a match
\* Mutation of AgingTick: the tick returns before tracking_tick.
AgingTick_SkipsTracking ==
    /\ hpc = "idle"
    /\ track_frequency_counter < TimeUnit * TimeUnit
    /\ track_frequency_counter' = track_frequency_counter + 1
    /\ dirty' = TRUE
    /\ UNCHANGED << hpc, hreq, ops, providerVars, fixedVars, workerVars >>
    /\ UNCHANGED << track_frequency, tracked_elements, predicted_elements, mp_pos,
                    next_id, historyVars >>

\* video_tick as OBS calls it frame after frame, with no detection pass in
\* between.  The count of seconds is capped at TimeUnit seconds, which is
\* more than the largest finite eviction threshold (TimeUnit / 2 seconds,
\* for the longest period below one second).
AgingTick ==
    /\ hpc = "idle"
    /\ track_frequency_counter < TimeUnit * TimeUnit
    /\ \E seconds \in SecondsInputs : tracking_tick(seconds)
    /\ dirty' = TRUE
    /\ UNCHANGED << hpc, hreq, ops, providerVars, fixedVars, workerVars >>
    /\ UNCHANGED << track_frequency, next_id, historyVars >>

\* What every AgingTick step, and no other step, does to the count of
\* seconds; it can happen exactly when AgingTick can.
TickTaken ==
    /\ hpc = "idle"
    /\ track_frequency_counter < TimeUnit * TimeUnit
    /\ \E seconds \in SecondsInputs :
          track_frequency_counter' = track_frequency_counter + seconds

\* OBS ticks every source once per rendered frame: a tick that can run does.
EvictSpec ==
    Init_Track /\ [][AgingTick]_vars /\ WF_track_frequency_counter(TickTaken)

\* ------------------------------------------------ the motion prediction alone
\* Tracks as a detection pass leaves them, with a velocity.
MovingInputs ==
    { [pos |-> p, vel |-> v, age |-> a] :
        p \in {<< 1, 1 >>, << 7, 5 >>}, v \in {<< 0, 0 >>, << 2, -1 >>}, a \in {0, 3} }

MovingStoreOf(ts) ==
    [i \in 1..Len(ts) |->
        [id |-> i, pos |-> ts[i].pos, size |-> << 2, 2 >>, vel |-> ts[i].vel,
         age |-> ts[i].age, confidence |-> 9]]

MovingStores == {MovingStoreOf(ts) : ts \in SeqsUpTo(MovingInputs, 2)}

\* update(): _motion_prediction, the setting in percent over 100.
MotionPredictionInputs == {RInt(0), Rat(1, 2), RInt(1)}

\* A store between two ticks: every track older than 0 has its predicted
\* element, whose mp_pos is where an earlier tick left it (on the track or
\* ahead of it); a track of age 0 has one unless the last pass made it.
Init_Predict ==
    /\ hpc = "idle"
    /\ hreq = "INVALID"
    /\ ops = MaxOps - 2
    /\ provider = "INVALID"
    /\ provider_ui = "INVALID"
    /\ provider_ready = FALSE
    /\ provider_lock = NoLock
    /\ provider_task = 0
    /\ tasks = [t \in TaskIds |-> [st |-> "none", spd |-> "INVALID"]]
    /\ queue = << >>
    /\ wpc = [w \in Workers |-> "idle"]
    /\ wtask = [w \in Workers |-> 0]
    /\ nvidia_fx = FALSE
    /\ nvidia_available = TRUE
    /\ track_frequency \in FrequencyInputs
    /\ track_frequency_counter = 0
    /\ dirty = FALSE
    /\ tracked_elements \in MovingStores
    /\ predicted_elements \in
          { TrackIds(tracked_elements),
            {tracked_elements[i].id : i \in {j \in 1..Len(tracked_elements) :
                                                tracked_elements[j].age > 0}} }
    /\ \E ahead \in {<< RInt(0), RInt(0) >>, << Rat(1, 2), RInt(-1) >>} :
          mp_pos = [id \in predicted_elements |->
                      LET pos == RPos(TrackOf(tracked_elements, id).pos)
                      IN  << RAdd(pos[1], ahead[1]), RAdd(pos[2], ahead[2]) >>]
    /\ motion_prediction \in MotionPredictionInputs
    /\ next_id = Len(tracked_elements) + 1
    /\ detections = << >>
    /\ frame = FrameConstructed
    /\ switch_failed = FALSE
    /\ loads_since = 0
    /\ raised_since = FALSE
    /\ back_to_back = FALSE

PredictSpec == Init_Predict /\ [][VideoTick]_vars

\* ---------------------------------------------------- the frame composition
\* tracking_tick, last block, for the settings, the frame-level filters and
\* the predicted elements it can meet.

\* Ticks of the frame composition in one behaviour.
MaxFrameTicks == 2

\* kalman1D::filter(measurement): predict, gain, correct.
KalmanFilter(k, m) ==
    LET p1 == RAdd(k.p, k.q)
        gain == RDiv(p1, RAdd(p1, k.r))
    IN  [k EXCEPT !.x = RAdd(k.x, RMul(gain, RSub(m, k.x))),
                  !.p = RMul(RSub(RInt(1), gain), p1)]

\* Mutation of AspectedSize: the axis that is too long is cut instead of the
\* other one growing.
AspectedSize_Crops(pad, aspect) ==
    IF aspect[1] > 0
    THEN IF QuotientGe(pad[1], pad[2], aspect)
         THEN << RMul(pad[2], aspect), pad[2] >>
         ELSE << pad[1], RDiv(pad[1], aspect) >>
    ELSE pad

\* tracking_tick: the aspected size of a predicted element from its padded
\* size.
AspectedSize(pad, aspect) ==
    IF aspect[1] > 0
    THEN IF QuotientGe(pad[1], pad[2], aspect)
         THEN << pad[1], RDiv(pad[1], aspect) >>
         ELSE << RMul(pad[2], aspect), pad[2] >>
    ELSE pad

\* float aspect = _frame_aspect_ratio > 0. ? _frame_aspect_ratio : width / height
TargetAspect(aspect) == IF aspect[1] > 0 THEN aspect ELSE Rat(FrameW, FrameH)

\* Mutation of AspectInflate: the first step shrinks where it should grow.
AspectInflate_Shrinks(size, aspect) ==
    IF LtQuotient(aspect, size[1], size[2])
    THEN << RMul(size[2], aspect), size[2] >>
    ELSE << size[1], RDiv(size[1], aspect) >>

\* Aspect ratio correction, step 1.
AspectInflate(size, aspect) ==
    IF LtQuotient(aspect, size[1], size[2])
    THEN << size[1], RDiv(size[1], aspect) >>
    ELSE << RMul(size[2], aspect), size[2] >>

\* Aspect ratio correction, step 2: rect, then _frame_pos and _frame_size.
AspectClamp(pos, size) ==
    LET x == RClamp(RSub(pos[1], RHalf(size[1])), RInt(0), RInt(FrameW))
        z == RClamp(RAdd(pos[1], RHalf(size[1])), RInt(0), RInt(FrameW))
        y == RClamp(RSub(pos[2], RHalf(size[2])), RInt(0), RInt(FrameH))
        w == RClamp(RAdd(pos[2], RHalf(size[2])), RInt(0), RInt(FrameH))
    IN  [pos |-> << RHalf(RAdd(x, z)), RHalf(RAdd(y, w)) >>,
         size |-> << RSub(z, x), RSub(w, y) >>]

\* Aspect ratio correction, step 3.
AspectShrink(size, aspect) ==
    IF LtQuotient(aspect, size[1], size[2])
    THEN << RMul(size[2], aspect), size[2] >>
    ELSE << size[1], RDiv(size[1], aspect) >>

\* Aspect ratio correction: the three steps.
AspectPass(pos, size, aspect) ==
    LET clamped == AspectClamp(pos, AspectInflate(size, aspect))
    IN  [pos |-> clamped.pos, size |-> AspectShrink(clamped.size, aspect)]

RMin(a, b) == IF RLt(b, a) THEN b ELSE a
RMax(a, b) == IF RLt(a, b) THEN b ELSE a

\* Group mode, the loop over _predicted_elements from the i-th: min and max.
RECURSIVE GroupBounds(_, _, _, _)
GroupBounds(els, i, min, max) ==
    IF i > Len(els) THEN [min |-> min, max |-> max]
    ELSE LET e == els[i]
             low == << RSub(e.offset_pos[1], RHalf(e.aspected_size[1])),
                       RSub(e.offset_pos[2], RHalf(e.aspected_size[2])) >>
             high == << RAdd(e.offset_pos[1], RHalf(e.aspected_size[1])),
                        RAdd(e.offset_pos[2], RHalf(e.aspected_size[2])) >>
         IN  GroupBounds(els, i + 1,
                         << RMin(min[1], low[1]), RMin(min[2], low[2]) >>,
                         << RMax(max[1], high[1]), RMax(max[2], high[2]) >>)

\* Solo mode: the last element of the map moves the position filters and
\* gives its aspected size as it is.
FrameSolo(fr, els) ==
    LET kv == els[Len(els)]
        px == KalmanFilter(fr.pos_x, kv.offset_pos[1])
        py == KalmanFilter(fr.pos_y, kv.offset_pos[2])
    IN  [fr EXCEPT !.pos_x = px, !.pos_y = py,
                   !.fed = [center |-> kv.offset_pos, size |-> kv.aspected_size],
                   !.pos = << px.x, py.x >>, !.size = kv.aspected_size]

\* Group mode: the four filters are given the centre and the size of the
\* bounds; min starts at the largest float, which every low is below, and
\* max at (0, 0).
FrameGroup(fr, els) ==
    LET first == els[1]
        b == GroupBounds(els, 1,
                 << RSub(first.offset_pos[1], RHalf(first.aspected_size[1])),
                    RSub(first.offset_pos[2], RHalf(first.aspected_size[2])) >>,
                 << RInt(0), RInt(0) >>)
        center == << RHalf(RAdd(b.min[1], b.max[1])), RHalf(RAdd(b.min[2], b.max[2])) >>
        size == << RSub(b.max[1], b.min[1]), RSub(b.max[2], b.min[2]) >>
        px == KalmanFilter(fr.pos_x, center[1])
        py == KalmanFilter(fr.pos_y, center[2])
        sx == KalmanFilter(fr.size_x, size[1])
        sy == KalmanFilter(fr.size_y, size[2])
    IN  [fr EXCEPT !.pos_x = px, !.pos_y = py, !.size_x = sx, !.size_y = sy,
                   !.fed = [center |-> center, size |-> size],
                   !.pos = << px.x, py.x >>, !.size = << sx.x, sy.x >>]

\* Mutation of FrameNoElement: the filters are set to the full frame.
FrameNoElement_Snaps(fr) ==
    [fr EXCEPT !.pos_x.x = Rat(FrameW, 2), !.pos_y.x = Rat(FrameH, 2),
               !.size_x.x = RInt(FrameW), !.size_y.x = RInt(FrameH),
               !.fed = [center |-> << Rat(FrameW, 2), Rat(FrameH, 2) >>,
                        size |-> << RInt(FrameW), RInt(FrameH) >>],
               !.pos = << Rat(FrameW, 2), Rat(FrameH, 2) >>,
               !.size = << RInt(FrameW), RInt(FrameH) >>]

\* No predicted element: the four filters are given the full frame.
FrameNoElement(fr) ==
    LET px == KalmanFilter(fr.pos_x, Rat(FrameW, 2))
        py == KalmanFilter(fr.pos_y, Rat(FrameH, 2))
        sx == KalmanFilter(fr.size_x, RInt(FrameW))
        sy == KalmanFilter(fr.size_y, RInt(FrameH))
    IN  [fr EXCEPT !.pos_x = px, !.pos_y = py, !.size_x = sx, !.size_y = sy,
                   !.fed = [center |-> << Rat(FrameW, 2), Rat(FrameH, 2) >>,
                            size |-> << RInt(FrameW), RInt(FrameH) >>],
                   !.pos = << px.x, py.x >>, !.size = << sx.x, sy.x >>]

\* tracking_tick, "Find final frame": the candidate, then the correction.
ComposeFrame(fr, els) ==
    LET cand == IF Len(els) > 0
                THEN IF fr.mode = "SOLO" THEN FrameSolo(fr, els)
                     ELSE FrameGroup(fr, els)
                ELSE FrameNoElement(fr)
        final == AspectPass(cand.pos, cand.size, TargetAspect(fr.aspect))
    IN  [cand EXCEPT !.els = els, !.pos = final.pos, !.size = final.size,
                     !.ticks = fr.ticks + 1]

\* What the prediction stage can hand over for one element: the offset
\* position and the padded size (track size plus twice the padding, which a
\* negative padding makes negative).
ElementInputs ==
    { [pos |-> << RInt(p[1]), RInt(p[2]) >>, pad |-> << RInt(d[1]), RInt(d[2]) >>] :
        p \in {<< 4, 3 >>, << 1, 1 >>, << 4, 16 >>, << -8, 3 >>},
        d \in {<< 4, 3 >>, << 2, 2 >>, << 2, -4 >>} }

PairInputs ==
    { e \in ElementInputs : /\ e.pos \in {<< RInt(1), RInt(1) >>, << RInt(4), RInt(16) >>}
                            /\ e.pad = << RInt(2), RInt(2) >> }

ElementLists ==
    {<< >>} \cup {<< e >> : e \in ElementInputs}
            \cup {<< a, b >> : a \in PairInputs, b \in PairInputs}

\* The filters update() makes: process noise for a stability of 0, the
\* estimates kept from before, either the constructor's or the full frame.
FilterInputs ==
    { [pos_x |-> Kalman(RInt(1), RInt(1), RInt(1), RInt(1)),
       pos_y |-> Kalman(RInt(1), RInt(1), RInt(1), RInt(1)),
       size_x |-> Kalman(RInt(1), RInt(1), RInt(1), RInt(1)),
       size_y |-> Kalman(RInt(1), RInt(1), RInt(1), RInt(1))],
      [pos_x |-> Kalman(RInt(1), RInt(1), RInt(1), Rat(FrameW, 2)),
       pos_y |-> Kalman(RInt(1), RInt(1), RInt(1), Rat(FrameH, 2)),
       size_x |-> Kalman(RInt(1), RInt(1), RInt(1), RInt(FrameW)),
       size_y |-> Kalman(RInt(1), RInt(1), RInt(1), RInt(FrameH))] }

\* update(): the mode, the aspect ratio (0 when none is given) and the
\* filters.
Init_Frame ==
    /\ hpc = "idle"
    /\ hreq = "INVALID"
    /\ ops = 0
    /\ provider = "INVALID"
    /\ provider_ui = "INVALID"
    /\ provider_ready = FALSE
    /\ provider_lock = NoLock
    /\ provider_task = 0
    /\ tasks = [t \in TaskIds |-> [st |-> "none", spd |-> "INVALID"]]
    /\ queue = << >>
    /\ wpc = [w \in Workers |-> "idle"]
    /\ wtask = [w \in Workers |-> 0]
    /\ nvidia_fx = FALSE
    /\ nvidia_available = TRUE
    /\ track_frequency = TimeUnit
    /\ track_frequency_counter = 0
    /\ dirty = TRUE
    /\ tracked_elements = << >>
    /\ predicted_elements = {}
    /\ mp_pos = << >>
    /\ motion_prediction = RInt(0)
    /\ next_id = 1
    /\ detections = << >>
    /\ \E mode \in {"SOLO", "GROUP"}, aspect \in {RInt(0), RInt(1), RInt(2)},
          fl \in FilterInputs :
         frame = [FrameConstructed EXCEPT !.mode = mode, !.aspect = aspect,
                                          !.pos_x = fl.pos_x, !.pos_y = fl.pos_y,
                                          !.size_x = fl.size_x, !.size_y = fl.size_y]
    /\ switch_failed = FALSE
    /\ loads_since = 0
    /\ raised_since = FALSE
    /\ back_to_back = FALSE

\* One tracking_tick, seen from its last block.
FrameTick ==
    /\ frame.ticks < MaxFrameTicks
    /\ \E raw \in ElementLists :
         frame' = ComposeFrame(frame,
                      [i \in 1..Len(raw) |->
                          [offset_pos |-> raw[i].pos,
                           pad_size |-> raw[i].pad,
                           aspected_size |-> AspectedSize(raw[i].pad, frame.aspect)]])
    /\ UNCHANGED << hpc, hreq, ops, providerVars, workerVars, trackVars, historyVars,
                    nvidia_available, detections, motion_prediction >>

FrameSpec == Init_Frame /\ [][FrameTick]_vars

\* ------------------------------------------------- update() and the filters
ST_KALMAN_EEC == 1

\* kalman1D::get(): the estimate.
KalmanGet(k) == k.x

\* Mutation of RecreateFilter: the new filter starts from the constructor's
\* estimate.
RecreateFilter_Reseeds(k, q, r) == Kalman(q, r, RInt(ST_KALMAN_EEC), RInt(1))

\* update(): filter = {q, r, ST_KALMAN_EEC, filter.get()}.
RecreateFilter(k, q, r) == Kalman(q, r, RInt(ST_KALMAN_EEC), KalmanGet(k))

\* update(): _motion_smoothing_kalman_pnc = lerp(1.0, 0.00001, smoothing) and
\* _motion_smoothing_kalman_mnc = lerp(0.001, 1000.0, smoothing), for a
\* smoothing of 0 % and of 100 %.
SmoothingInputs ==
    { [pnc |-> RInt(1), mnc |-> Rat(1, 1000)],
      [pnc |-> Rat(1, 100000), mnc |-> RInt(1000)] }

\* update(): _frame_stability_kalman = lerp(1.0, 0.00001, stability), for a
\* stability of 0 % and of 100 %.
StabilityInputs == { RInt(1), Rat(1, 100000) }

\* The four filters of a predicted element as ticks leave them for a track
\* that has rested: the estimates at the track's position and size, the
\* error covariance below its initial value.
SettledFilters(trck) ==
    [ pos_x  |-> Kalman(RInt(1), Rat(1, 1000), Rat(1, 2), RInt(trck.pos[1])),
      pos_y  |-> Kalman(RInt(1), Rat(1, 1000), Rat(1, 2), RInt(trck.pos[2])),
      size_x |-> Kalman(RInt(1), Rat(1, 1000), Rat(1, 2), RInt(trck.size[1])),
      size_y |-> Kalman(RInt(1), Rat(1, 1000), Rat(1, 2), RInt(trck.size[2])) ]

\* The frame-level filters after one tick that gave each the measurement m.
TickedFilters(m) ==
    LET k == KalmanFilter(Kalman(RInt(1), RInt(1), RInt(1), RInt(1)), RInt(m))
    IN  [pos_x |-> k, pos_y |-> k, size_x |-> k, size_y |-> k]

\* The filter between two callbacks: a store with a predicted element for
\* every track, each with its filters, and frame-level filters that are the
\* constructor's or have taken a measurement.
Init_Tune ==
    /\ hpc = "idle"
    /\ hreq = "INVALID"
    /\ ops = MaxOps - 1
    /\ provider = "INVALID"
    /\ provider_ui = "INVALID"
    /\ provider_ready = FALSE
    /\ provider_lock = NoLock
    /\ provider_task = 0
    /\ tasks = [t \in TaskIds |-> [st |-> "none", spd |-> "INVALID"]]
    /\ queue = << >>
    /\ wpc = [w \in Workers |-> "idle"]
    /\ wtask = [w \in Workers |-> 0]
    /\ nvidia_fx = FALSE
    /\ nvidia_available = TRUE
    /\ track_frequency = TimeUnit
    /\ track_frequency_counter \in {0, 1}
    /\ dirty = TRUE
    /\ tracked_elements \in MovingStores
    /\ predicted_elements = TrackIds(tracked_elements)
    /\ mp_pos = [id \in predicted_elements |-> RPos(TrackOf(tracked_elements, id).pos)]
    /\ motion_prediction = RInt(0)
    /\ next_id = Len(tracked_elements) + 1
    /\ detections = << >>
    /\ \E mode \in {"SOLO", "GROUP"}, fl \in {TickedFilters(m) : m \in {1, 4, 8}} :
         frame = [FrameConstructed EXCEPT
                     !.mode = mode,
                     !.pos_x = fl.pos_x, !.pos_y = fl.pos_y,
                     !.size_x = fl.size_x, !.size_y = fl.size_y,
                     !.els = [i \in 1..Len(tracked_elements) |->
                                 [offset_pos |-> RPos(tracked_elements[i].pos),
                                  pad_size |-> RPos(tracked_elements[i].size),
                                  aspected_size |-> RPos(tracked_elements[i].size),
                                  filters |-> SettledFilters(tracked_elements[i])]]]
    /\ switch_failed = FALSE
    /\ loads_since = 0
    /\ raised_since = FALSE
    /\ back_to_back = FALSE

\* update() with the provider that is already selected, so that no switch
\* is requested: the mode, the period, the gain, the smoothing and the
\* stability are read, the counter is reset, the filters of every predicted
\* element and the frame-level filters are re-created.
FrameUpdate ==
    /\ hpc = "idle"
    /\ ops < MaxOps
    /\ ops' = ops + 1
    /\ track_frequency' \in FrequencyInputs
    /\ track_frequency_counter' = 0
    /\ motion_prediction' \in MotionPredictionInputs
    /\ \E mode \in {"SOLO", "GROUP"}, sm \in SmoothingInputs, st \in StabilityInputs :
         frame' =
            [frame EXCEPT
               !.mode = mode,
               !.els = [i \in 1..Len(frame.els) |->
                          [frame.els[i] EXCEPT
                              !.filters =
                                 [f \in DOMAIN frame.els[i].filters |->
                                     RecreateFilter(frame.els[i].filters[f],
                                                    sm.pnc, sm.mnc)]]],
               !.pos_x = RecreateFilter(frame.pos_x, st, RInt(1)),
               !.pos_y = RecreateFilter(frame.pos_y, st, RInt(1)),
               !.size_x = RecreateFilter(frame.size_x, st, RInt(1)),
               !.size_y = RecreateFilter(frame.size_y, st, RInt(1))]
    /\ UNCHANGED << hpc, hreq, providerVars, workerVars, historyVars,
                    nvidia_available, detections >>
    /\ UNCHANGED << dirty, tracked_elements, predicted_elements, mp_pos, next_id >>

TuneSpec == Init_Tune /\ [][FrameUpdate]_vars

\* ------------------------------------------------------------------ claims
SwitchPcs == {"sw_lock", "sw_pop", "sw_await", "sw_push"}
DestroyPcs == {"d_lock", "d_pop", "d_await", "d_unload"}
InSwitchSequence(w) == wpc[w] \in {"t_unload", "t_load"}
LiveTasks == {t \in TaskIds : tasks[t].st \in {"queued", "running"}}
LastTask == Cardinality({t \in TaskIds : tasks[t].st # "none"})
WorkersIdle == queue = << >> /\ \A w \in Workers : wpc[w] = "idle"

\* C1: at most one switch task is queued or executing at any moment, and no
\* two workers are inside task_switch_provider at once.
C1_OneSwitchTask ==
    /\ Cardinality(LiveTasks) <= 1
    /\ Cardinality({w \in Workers : wpc[w] # "idle"}) <= 1

\* C1 witness: a switch was requested while its predecessor was unfinished,
\* and the task it pushed is now running.
C1_Witness ==
    /\ back_to_back
    /\ provider_task # 0
    /\ tasks[provider_task].st = "running"
    /\ \E t \in TaskIds : tasks[t].st = "cancelled"

\* C2: after two back-to-back requests, the second for B, with no load
\* raising, once the host is back and the pool idle: B is the active kind,
\* the provider is ready, and B was loaded exactly once (not at all when B is
\* no backend).
C2_BackToBackLoadsSecond ==
    (back_to_back /\ ~raised_since /\ hpc = "idle" /\ WorkersIdle)
        => /\ provider = hreq
           /\ provider_ready
           /\ loads_since = (IF provider = "NVIDIA_FACEDETECTION" THEN 1 ELSE 0)
           /\ (provider = "NVIDIA_FACEDETECTION" => nvidia_fx)

\* C2 witness: the back-to-back switch to the NVIDIA backend has finished.
C2_Witness ==
    /\ back_to_back /\ ~raised_since /\ hpc = "idle" /\ WorkersIdle
    /\ provider = "NVIDIA_FACEDETECTION"
    /\ loads_since = 1

\* C3: the backend's process() runs only while the provider is Ready: the
\* ready flag is set and the switch to the current _provider has completed
\* without raising.
C3_DetectOnlyWhenReady ==
    (hpc = "r_process" /\ provider = "NVIDIA_FACEDETECTION" /\ nvidia_fx)
        => /\ provider_ready
           /\ provider_task # 0
           /\ tasks[provider_task].st = "done"
           /\ ~switch_failed

\* C4: the host is never inside the detection pass (or the destructor's
\* unload) while a worker is inside the unload/load sequence.
C4_ProcessExcludesSwitch ==
    \A w \in Workers :
        ~(hpc \in {"r_process", "d_unload"} /\ InSwitchSequence(w))

\* C4 witness: the detection pass is running and a switch task waits for the
\* lock.
C4_Witness ==
    /\ hpc = "r_process"
    /\ \E w \in Workers : wpc[w] = "t_lock"

\* C5: every call of switch_provider eventually returns.
C5_SwitchReturns == (hpc \in SwitchPcs) ~> (hpc \notin SwitchPcs)

\* C6: once the destructor is past its wait, and so at and after its unload,
\* no switch task is queued and no worker is inside one.
C6_NoTaskAfterUnload ==
    (hpc \in {"d_unload", "destroyed"}) => (LiveTasks = {} /\ WorkersIdle)

\* C6 witness: the destructor has unloaded after cancelling the task that was
\* outstanding when it ran.
C6_Witness ==
    /\ hpc = "destroyed"
    /\ LastTask > 0
    /\ tasks[LastTask].st = "cancelled"

\* C7: destruction eventually completes.
C7_DestroyCompletes == (hpc \in DestroyPcs) ~> (hpc = "destroyed")

\* C8: after a switch task in which the unload or the load raised, the task has ended with
\* the lock released and the provider is not ready, until a later task
\* completes its load.
C8_FailedStaysNotReady ==
    switch_failed =>
        /\ ~provider_ready
        /\ \A w \in Workers : wpc[w] = "idle" => provider_lock # w

\* C8 witness: a task raised and ended, the pool is idle and the host thread
\* is running callbacks.
C8_Witness ==
    /\ switch_failed
    /\ WorkersIdle
    /\ tasks[LastTask].st = "done"
    /\ hpc = "idle"
    /\ ops > 1

\* C9: a video_render entered while the provider is not ready returns at once
\* and leaves tracks, predicted elements, counter and dirty flag unchanged.
C9_NotReadyPassthrough ==
    [][(VideoRender /\ ~provider_ready)
          => (/\ hpc' = "idle"
              /\ UNCHANGED << tracked_elements, predicted_elements,
                              track_frequency_counter, dirty >>)]_vars

\* C9 witness: the provider is not ready in a state where a render would
\* otherwise run a detection pass over existing tracks.
C9_Witness ==
    /\ ~provider_ready
    /\ hpc = "idle"
    /\ dirty
    /\ track_frequency_counter >= track_frequency
    /\ tracked_elements # << >>
    /\ ENABLED VideoRender

\* C10: between callbacks a predicted element exists for exactly the live
\* tracks.
C10_PredictedIffTracked ==
    hpc = "idle" => predicted_elements = TrackIds(tracked_elements)

\* C10 as amended: every predicted element belongs to a live track; the two
\* sets coincide after every video_tick (while _dirty is set); a track
\* without a predicted element is one a detection pass has just created.
C10_PredictedLockstep ==
    /\ predicted_elements \subseteq TrackIds(tracked_elements)
    /\ dirty => predicted_elements = TrackIds(tracked_elements)
    /\ \A i \in 1..Len(tracked_elements) :
          tracked_elements[i].id \notin predicted_elements
              => tracked_elements[i].age = 0

\* C10 witness: one track has its predicted element and a second, created by
\* the last detection pass, has none yet.
C10_Witness ==
    /\ hpc = "idle"
    /\ predicted_elements # {}
    /\ \E i \in 1..Len(tracked_elements) :
          tracked_elements[i].id \notin predicted_elements

\* C20: _provider is never AUTOMATIC.  update() resolves AUTOMATIC to the
\* first available backend of the priority list, or to INVALID, before it
\* asks for a switch: neither the argument of switch_provider, nor the
\* provider a task carries, nor _provider_ui is AUTOMATIC, and each is a
\* backend of the priority list or INVALID.
C20_ProviderNeverAutomatic ==
    LET resolved == {provider_priority[i] : i \in 1..Len(provider_priority)}
                        \cup {"INVALID"}
    IN  /\ provider \in resolved
        /\ provider_ui \in resolved
        /\ hreq \in resolved
        /\ \A t \in TaskIds : tasks[t].spd \in resolved

\* update() has asked for the backend AUTOMATIC stands for, and it is loaded.
C20_Witness ==
    /\ ResolveProvider("AUTOMATIC") = find_ideal_provider
    /\ find_ideal_provider # "INVALID"
    /\ provider = find_ideal_provider
    /\ provider_ui = provider
    /\ provider_ready

\* C15: a detection pass is started by a render only when the counter, the
\* tick time accumulated since its last reset, has reached the period, and
\* starting it resets the counter to 0; the counter changes only by a reset
\* to 0 or by the seconds of a video_tick; a pass that runs finds _dirty set
\* and clears it, and only video_tick sets _dirty again: at most one pass
\* between two consecutive ticks, however many renders.
C15_DetectionPacing ==
    [][ /\ (hpc = "idle" /\ hpc' = "r_lock")
            => /\ track_frequency_counter >= track_frequency
               /\ track_frequency_counter' = 0
               /\ dirty
        /\ (hpc = "r_process" /\ hpc' = "idle" /\ provider = "NVIDIA_FACEDETECTION")
            => (dirty /\ ~dirty')
        /\ (~dirty /\ dirty')
            => (track_frequency_counter' - track_frequency_counter) \in SecondsInputs
        /\ (track_frequency_counter' # track_frequency_counter)
            => \/ track_frequency_counter' = 0
               \/ /\ (track_frequency_counter' - track_frequency_counter)
                        \in SecondsInputs
                  /\ dirty'
      ]_vars

\* A render has found the counter at a non-zero period and is about to run
\* the detection pass.
C15_Witness ==
    /\ hpc = "r_process"
    /\ provider = "NVIDIA_FACEDETECTION"
    /\ nvidia_fx
    /\ track_frequency > 0
    /\ track_frequency_counter = 0

\* C14 as stated: the prediction of a tick already sees the tracks as that
\* tick's detections left them, so once the detection pass of a frame is
\* over every live track has its predicted element.
C14_PredictionSeesDetections ==
    (hpc = "idle" /\ ~dirty) => TrackIds(tracked_elements) \subseteq predicted_elements

\* C14, amended: video_tick runs aging and eviction and then prediction (and
\* composition) on the store the aging left, with no callback in progress;
\* the association of the frame runs afterwards, in video_render under
\* _dirty, and leaves the prediction's output as the tick made it.
C14_StageOrder ==
    [][ /\ VideoTick
            => /\ hpc = "idle"
               /\ predicted_elements' = TrackIds(tracked_elements')
               /\ Len(tracked_elements') <= Len(tracked_elements)
        /\ (hpc = "r_process" /\ hpc' = "idle" /\ provider = "NVIDIA_FACEDETECTION")
            => /\ dirty
               /\ predicted_elements' = predicted_elements
      ]_vars

\* A detection pass has updated or created tracks after the tick predicted:
\* a track made by the pass has no predicted element yet, an older one has.
C14_Witness ==
    /\ hpc = "idle"
    /\ ~dirty
    /\ predicted_elements # {}
    /\ \E i \in 1..Len(tracked_elements) :
          tracked_elements[i].id \notin predicted_elements

\* C11: an aging step of dt adds dt to the age of every track exactly once,
\* removes exactly the tracks whose new age has reached the threshold
\* 0.5 / (1 - f), and keeps every other track, in its order, wherever it
\* stands in the list and however many are removed in the step.
C11_AgingEvictsExactly ==
    [][ VideoTick =>
          LET dt == track_frequency_counter' - track_frequency_counter
              aged == [i \in 1..Len(tracked_elements) |->
                          [tracked_elements[i] EXCEPT !.age = @ + dt]]
              Stays(t) == ~AgeExceeds(t.age, track_frequency)
          IN  tracked_elements' = SelectSeq(aged, Stays)
      ]_vars

\* A tick has removed the first track of a store of two and kept the second.
C11_Witness ==
    /\ dirty
    /\ next_id > 2
    /\ Len(tracked_elements) = 1
    /\ tracked_elements[1].id = 2
    /\ track_frequency < TimeUnit
    /\ detections = << >>

\* The boxes of a detection list that may take part in the association.
Eligible(dets) == PotentialMatches(SelectSeq(dets, LAMBDA r : r.confidence >= ConfFloor), 1)

\* The association as C12 words it: the tracks are taken in store order from
\* the k-th; a track takes, of the boxes no earlier track has taken, one at
\* the least distance, if that distance is below the maximum, and the
\* earliest such box when several are as near.
RECURSIVE NearestUnmatched(_, _, _, _)
NearestUnmatched(tracks, boxes, f, k) ==
    IF k > Len(tracks) THEN [tracks |-> tracks, boxes |-> boxes]
    ELSE LET D(i) == Dist2(boxes[i].pos, tracks[k].pos)
             near == {i \in 1..Len(boxes) : WithinMaxDst(D(i), f)}
         IN  IF near = {} THEN NearestUnmatched(tracks, boxes, f, k + 1)
             ELSE LET m == CHOOSE i \in near :
                             \A j \in near : D(i) < D(j) \/ (D(i) = D(j) /\ i <= j)
                  IN  NearestUnmatched(
                          [tracks EXCEPT ![k].pos = boxes[m].pos, ![k].age = 0],
                          RemoveAt(boxes, m), f, k + 1)

\* What decides which detection a track was updated from.
Placement(tracks) == [i \in 1..Len(tracks) |-> << tracks[i].pos, tracks[i].age >>]

\* C12: a track is updated only from a detection nearer than the maximum
\* distance, the nearest among those still unmatched when the tracks are
\* taken in store order; the detections left over, among them every one
\* that is at the maximum distance or farther from every track, update no
\* track and become the new tracks, in their order.
C12_NearestWithinMaxDistance ==
    [][ AssociationPass =>
          LET n == Len(tracked_elements)
              E == Eligible(detections')
              want == NearestUnmatched(tracked_elements, E, track_frequency, 1)
              got == tracked_elements'
              far == {i \in 1..Len(E) :
                         \A k \in 1..n :
                            ~WithinMaxDst(Dist2(E[i].pos, tracked_elements[k].pos),
                                          track_frequency)}
          IN  /\ Len(got) = n + Len(want.boxes)
              /\ Placement(SubSeq(got, 1, n)) = Placement(want.tracks)
              /\ Placement(SubSeq(got, n + 1, Len(got))) = Placement(want.boxes)
              /\ \A i \in far : \E j \in (n + 1)..Len(got) :
                                    got[j].pos = E[i].pos /\ got[j].age = 0
              /\ Cardinality(far) <= Len(got) - n
      ]_vars

\* A pass has given a track the nearer of two detections within reach, the
\* one reported second, and made a track of the other.
C12_Witness ==
    /\ Len(detections) = 2
    /\ detections[1].confidence >= ConfFloor
    /\ detections[2].confidence >= ConfFloor
    /\ Len(tracked_elements) = 2
    /\ next_id = 3
    /\ tracked_elements[1].id = 1
    /\ tracked_elements[1].age = 0
    /\ tracked_elements[1].pos = << detections[2].x + detections[2].z \div 2,
                                    detections[2].y + detections[2].w \div 2 >>
    /\ tracked_elements[2].pos = << detections[1].x + detections[1].z \div 2,
                                    detections[1].y + detections[1].w \div 2 >>
    /\ tracked_elements[1].pos # tracked_elements[2].pos
    /\ tracked_elements[1].vel # << 0, 0 >>
    /\ track_frequency = 2

\* C13: a detection of confidence below 0.5 updates no track and becomes no
\* track: the pass ends as it would without that detection, and no track
\* carries such a confidence; each detection of confidence 0.5 or more is
\* used, so the pass adds as many tracks as there are such detections less
\* the tracks it updated.
C13_ConfidenceFloor ==
    [][ AssociationPass =>
          LET n == Len(tracked_elements)
              kept == SelectSeq(detections', LAMBDA r : r.confidence >= ConfFloor)
              updated == {k \in 1..n : tracked_elements'[k] # tracked_elements[k]}
          IN  /\ tracked_elements' =
                     nvar_facedetection_process(tracked_elements, kept,
                                                track_frequency, TRUE, next_id)
              /\ \A i \in 1..Len(tracked_elements') :
                    tracked_elements'[i].confidence >= ConfFloor
              /\ Len(tracked_elements') - n + Cardinality(updated) <= Len(kept)
              /\ Len(tracked_elements') >= Len(kept)
              /\ (n = 0) => Len(tracked_elements') = Len(kept)
      ]_vars

\* A pass was given one detection below the floor and one above it, and made
\* a track of the second alone.
C13_Witness ==
    /\ Len(detections) = 2
    /\ detections[1].confidence < ConfFloor
    /\ detections[2].confidence >= ConfFloor
    /\ Len(tracked_elements) = 1
    /\ next_id = 2
    /\ tracked_elements[1].age = 0

\* The rectangle centred at pos with the given size lies inside the one with
\* the edges lo and hi.
RectWithin(pos, size, lo, hi) ==
    /\ RLe(lo[1], RSub(pos[1], RHalf(size[1])))
    /\ RLe(lo[1], RAdd(pos[1], RHalf(size[1])))
    /\ RLe(RSub(pos[1], RHalf(size[1])), hi[1])
    /\ RLe(RAdd(pos[1], RHalf(size[1])), hi[1])
    /\ RLe(lo[2], RSub(pos[2], RHalf(size[2])))
    /\ RLe(lo[2], RAdd(pos[2], RHalf(size[2])))
    /\ RLe(RSub(pos[2], RHalf(size[2])), hi[2])
    /\ RLe(RAdd(pos[2], RHalf(size[2])), hi[2])

InsideFrame(pos, size) ==
    RectWithin(pos, size, << RInt(0), RInt(0) >>, << RInt(FrameW), RInt(FrameH) >>)

\* C16: after the correction the left and right edges of the final rectangle
\* lie in [0, frameWidth] and the top and bottom edges in [0, frameHeight],
\* whatever the candidate was.
C16_RectangleInsideFrame ==
    frame.ticks > 0 => InsideFrame(frame.pos, frame.size)

\* C17: after the correction width / height of the final rectangle is the
\* target ratio, for every candidate.
C17_RatioIsTarget ==
    frame.ticks > 0
       => /\ frame.size[2][1] # 0
          /\ RDiv(frame.size[1], IF frame.size[2][1] # 0 THEN frame.size[2] ELSE RInt(1))
                = TargetAspect(frame.aspect)

\* Solo mode with one predicted element, a box of positive size that lies
\* inside the frame.
SoloElementInside ==
    /\ frame.ticks > 0
    /\ frame.mode = "SOLO"
    /\ Len(frame.els) = 1
    /\ frame.els[1].aspected_size[1][1] > 0
    /\ frame.els[1].aspected_size[2][1] > 0
    /\ InsideFrame(frame.els[1].offset_pos, frame.els[1].aspected_size)

\* The final rectangle contains the box of the element.
ContainsElement ==
    RectWithin(frame.els[1].offset_pos, frame.els[1].aspected_size,
               << RSub(frame.pos[1], RHalf(frame.size[1])),
                  RSub(frame.pos[2], RHalf(frame.size[2])) >>,
               << RAdd(frame.pos[1], RHalf(frame.size[1])),
                  RAdd(frame.pos[2], RHalf(frame.size[2])) >>)

\* The least size of the given ratio that is no smaller than size.
Enlarged(size, aspect) ==
    << RMax(size[1], RMul(size[2], aspect)), RMax(size[2], RDiv(size[1], aspect)) >>

FiltersAtFullFrame(fr) ==
    /\ fr.pos_x.x = Rat(FrameW, 2)
    /\ fr.pos_y.x = Rat(FrameH, 2)
    /\ fr.size_x.x = RInt(FrameW)
    /\ fr.size_y.x = RInt(FrameH)

\* C19 as stated: with no element the rectangle comes to rest at the centre
\* of the frame with the size of the frame; a tick with no element and the
\* filters at their target leaves it there.
C19_RestsAtFullFrame ==
    (frame.ticks > 0 /\ frame.els = << >> /\ FiltersAtFullFrame(frame))
       => /\ frame.pos = << Rat(FrameW, 2), Rat(FrameH, 2) >>
          /\ frame.size = << RInt(FrameW), RInt(FrameH) >>

\* An estimate moves from x to y towards m without reaching or passing it,
\* or rests at m.
Approaches(x, y, m) ==
    \/ x = m /\ y = m
    \/ RLt(x, y) /\ RLt(y, m)
    \/ RLt(m, y) /\ RLt(y, x)

\* The largest size of the given ratio that fits the frame.
Fitted(aspect) ==
    IF RLe(RMul(RInt(FrameH), aspect), RInt(FrameW))
    THEN << RMul(RInt(FrameH), aspect), RInt(FrameH) >>
    ELSE << RInt(FrameW), RDiv(RInt(FrameW), aspect) >>

\* C19, amended: a tick with no element gives the four frame-level filters
\* the full-frame target, so each estimate moves towards it without
\* snapping; with the estimates at the target the final rectangle is centred
\* in the frame and has the largest size of the target ratio that fits,
\* which is the size of the frame when the target ratio is the frame's.
C19_ApproachesFittedFrame ==
    [][ (frame'.ticks = frame.ticks + 1 /\ frame'.els = << >>)
          => /\ Approaches(frame.pos_x.x, frame'.pos_x.x, Rat(FrameW, 2))
             /\ Approaches(frame.pos_y.x, frame'.pos_y.x, Rat(FrameH, 2))
             /\ Approaches(frame.size_x.x, frame'.size_x.x, RInt(FrameW))
             /\ Approaches(frame.size_y.x, frame'.size_y.x, RInt(FrameH))
             /\ FiltersAtFullFrame(frame')
                  => /\ frame'.pos = << Rat(FrameW, 2), Rat(FrameH, 2) >>
                     /\ frame'.size = Fitted(TargetAspect(frame.aspect))
                     /\ (frame.aspect[1] = 0
                           => frame'.size = << RInt(FrameW), RInt(FrameH) >>)
      ]_vars

\* Two ticks with no element have moved the estimates from the constructor's
\* values part of the way to the full frame.
C19_Witness ==
    /\ frame.ticks > 1
    /\ frame.els = << >>
    /\ RLt(RInt(1), frame.size_x.x)
    /\ RLt(frame.size_x.x, RInt(FrameW))
    /\ RLt(RInt(1), frame.pos_y.x)
    /\ RLt(frame.pos_y.x, Rat(FrameH, 2))

\* A track has left the store in the step: its id is issued and no longer
\* names a live element.
Evicted(id) == id \in TrackIds(tracked_elements) \ TrackIds(tracked_elements')

\* C21: every key of the predicted map names a live tracked element in every
\* reachable state; a track leaves the store only in a video_tick, and its
\* predicted element is gone in the same step.
C21_NoDanglingPredicted ==
    /\ [](predicted_elements \subseteq TrackIds(tracked_elements))
    /\ [][ \A id \in TrackIds(tracked_elements) :
              Evicted(id) => (VideoTick /\ id \notin predicted_elements') ]_vars

\* C21 witness: a track that had a predicted element has been evicted, and a
\* later track is live with its own predicted element.
C21_Witness ==
    /\ Len(tracked_elements) = 1
    /\ tracked_elements[1].id > 1
    /\ predicted_elements = { tracked_elements[1].id }

\* C26: in every reachable state the confidence of every tracked element is
\* at least 0.5 and at most 1.0, also when the detector reports more than 1.0.
C26_ConfidenceRange ==
    \A i \in 1..Len(tracked_elements) :
        /\ tracked_elements[i].confidence >= ConfFloor
        /\ tracked_elements[i].confidence <= ConfMax

\* C26 witness: a track holds the clamped confidence 1.0; only a box the
\* detector reported above 1.0 gives it.
C26_Witness ==
    /\ \E d \in DetectorBoxes : d.confidence > ConfMax
    /\ \E i \in 1..Len(tracked_elements) :
          tracked_elements[i].confidence = ConfMax

\* The age of the track with this id, before and after the step.
AgeOf(tracks, id) ==
    LET i == CHOOSE k \in 1..Len(tracks) : tracks[k].id = id IN tracks[i].age

\* C24: the age of a track changes in two ways only: a tracking_tick adds the
\* tick's duration to it, once, and a detection pass that matches the track
\* sets it to 0.  update(), a render without a detection pass, the steps of
\* a provider switch and of its task leave every age as it is.
C24_AgeChanges ==
    [][ LET dt == track_frequency_counter' - track_frequency_counter
            kept == TrackIds(tracked_elements) \cap TrackIds(tracked_elements')
        IN  /\ VideoTick =>
                \A id \in kept :
                    AgeOf(tracked_elements', id) = AgeOf(tracked_elements, id) + dt
            /\ (RenderProcess /\ provider = "NVIDIA_FACEDETECTION") =>
                \A id \in TrackIds(tracked_elements) :
                    /\ id \in kept
                    /\ AgeOf(tracked_elements', id) \in {AgeOf(tracked_elements, id), 0}
            /\ (~VideoTick /\ ~(RenderProcess /\ provider = "NVIDIA_FACEDETECTION")) =>
                tracked_elements' = tracked_elements
      ]_vars

\* C24 witness: a track that a tick had aged (it has its predicted element)
\* is back at age 0 after a detection pass matched it.
C24_Witness ==
    /\ hpc = "idle"
    /\ ~dirty
    /\ \E i \in 1..Len(tracked_elements) :
          /\ tracked_elements[i].age = 0
          /\ tracked_elements[i].id \in predicted_elements

\* The centre of a reported box, as the pass computes it.
CentreOf(r) == << r.x + r.z \div 2, r.y + r.w \div 2 >>

\* What C23 says a track el is after the detection r matched it.
UpdatedFrom(el, r) ==
    [ id         |-> el.id,
      pos        |-> CentreOf(r),
      size       |-> << r.z, r.w >>,
      vel        |-> << el.pos[1] - CentreOf(r)[1], el.pos[2] - CentreOf(r)[2] >>,
      age        |-> 0,
      confidence |-> IF r.confidence > ConfMax THEN ConfMax ELSE r.confidence ]

\* C23: after a pass every track of the store is either as it was or has the
\* position and size of one detection of enough confidence within reach, the
\* velocity (its position before the match minus the detection's), age 0 and
\* the detection's clamped confidence; a track with no such detection
\* within reach is left unchanged.
C23_MatchedTrackUpdate ==
    [][ AssociationPass =>
          \A k \in 1..Len(tracked_elements) :
              LET el == tracked_elements[k]
                  reach == {i \in 1..Len(detections') :
                               /\ detections'[i].confidence >= ConfFloor
                               /\ WithinMaxDst(Dist2(CentreOf(detections'[i]), el.pos),
                                               track_frequency)}
              IN  /\ \/ tracked_elements'[k] = el
                     \/ \E i \in reach :
                           tracked_elements'[k] = UpdatedFrom(el, detections'[i])
                  /\ reach = {} => tracked_elements'[k] = el
      ]_vars

\* C23 witness: a pass matched a track that stood elsewhere with a detection
\* reported above 1.0 (the track has a velocity, age 0, confidence 1.0) and
\* left another track, of age above 0, as it was; no track was added.
C23_Witness ==
    /\ detections # << >>
    /\ Len(tracked_elements) = next_id - 1
    /\ \E i, j \in 1..Len(tracked_elements) :
          /\ tracked_elements[i].age = 0
          /\ tracked_elements[i].vel # << 0, 0 >>
          /\ tracked_elements[i].confidence = ConfMax
          /\ tracked_elements[j].age > 0
          /\ tracked_elements[j].vel = << 0, 0 >>

\* The elements of a sequence at the indices of a set, in their order.
RECURSIVE Pick(_, _, _)
Pick(s, keep, i) ==
    IF i > Len(s) THEN << >>
    ELSE IF i \in keep THEN << s[i] >> \o Pick(s, keep, i + 1)
         ELSE Pick(s, keep, i + 1)

\* A track without its id.
Body(t) == [pos |-> t.pos, size |-> t.size, vel |-> t.vel, age |-> t.age,
            confidence |-> t.confidence]

\* C22: in one association pass each accepted detection is consumed exactly
\* once.  There is an assignment of the old tracks to accepted detections,
\* no detection assigned twice, such that an assigned track carries its
\* detection, an unassigned one is unchanged, and the detections assigned to
\* no track are the new tracks, one each and in their order, with age 0 and
\* zero velocity; the store grows by the number of those detections.
C22_ConsumedOnce ==
    [][ AssociationPass =>
          LET n == Len(tracked_elements)
              E == Eligible(detections')
              got == tracked_elements'
          IN  \E g \in [1..n -> 0..Len(E)] :
                 LET used == {g[k] : k \in 1..n} \ {0}
                     free == (1..Len(E)) \ used
                 IN  /\ \A j, k \in 1..n : (j # k /\ g[j] # 0) => g[j] # g[k]
                     /\ Len(got) = n + Cardinality(free)
                     /\ \A k \in 1..n :
                           IF g[k] = 0 THEN got[k] = tracked_elements[k]
                           ELSE /\ got[k].id = tracked_elements[k].id
                                /\ got[k].pos = E[g[k]].pos
                                /\ got[k].size = E[g[k]].size
                                /\ got[k].confidence = E[g[k]].confidence
                                /\ got[k].age = 0
                     /\ [i \in 1..(Len(got) - n) |-> Body(got[n + i])]
                            = Pick(E, free, 1)
                     /\ \A i \in (n + 1)..Len(got) :
                           /\ got[i].age = 0
                           /\ got[i].vel = << 0, 0 >>
                           /\ got[i].id \notin TrackIds(tracked_elements)
                           /\ \A j \in 1..Len(got) : got[j].id = got[i].id => j = i
      ]_vars

\* C22 witness: of two accepted detections one updated a track that stood
\* elsewhere and the other became the one new track, after a track that no
\* detection matched.
C22_Witness ==
    /\ Len(detections) = 2
    /\ \A i \in 1..2 : detections[i].confidence >= ConfFloor
    /\ Len(tracked_elements) = 3
    /\ next_id = 4
    /\ tracked_elements[3].id = 3
    /\ tracked_elements[3].age = 0
    /\ tracked_elements[3].vel = << 0, 0 >>
    /\ \E i, j \in 1..2 :
          /\ tracked_elements[i].age = 0
          /\ tracked_elements[i].vel # << 0, 0 >>
          /\ tracked_elements[j].age > 0

\* C28: with an aspect ratio configured and a padded size positive on both
\* axes, the aspected size of an element is not smaller than the padded size
\* on either axis, equals it on one, and its width is the ratio times its
\* height.
C28_AspectedCoversPadded ==
    \A i \in 1..Len(frame.els) :
        LET pad == frame.els[i].pad_size
            asp == frame.els[i].aspected_size
        IN  (frame.aspect[1] > 0 /\ pad[1][1] > 0 /\ pad[2][1] > 0)
              => /\ RLe(pad[1], asp[1])
                 /\ RLe(pad[2], asp[2])
                 /\ asp[1] = pad[1] \/ asp[2] = pad[2]
                 /\ asp[1] = RMul(frame.aspect, asp[2])

\* C28 witness: under the ratio 2 an element of positive padded size kept its
\* height and grew in width.
C28_Witness ==
    /\ frame.aspect = RInt(2)
    /\ \E i \in 1..Len(frame.els) :
          LET pad == frame.els[i].pad_size
              asp == frame.els[i].aspected_size
          IN  /\ pad[1][1] > 0 /\ pad[2][1] > 0
              /\ asp[1] # pad[1]
              /\ asp[2] = pad[2]

\* The exact axis-aligned union of the elements' boxes.
UnionLow(els, ax) ==
    LET low(i) == RSub(els[i].offset_pos[ax], RHalf(els[i].aspected_size[ax]))
        m == CHOOSE i \in 1..Len(els) : \A j \in 1..Len(els) : RLe(low(i), low(j))
    IN  low(m)

UnionHigh(els, ax) ==
    LET high(i) == RAdd(els[i].offset_pos[ax], RHalf(els[i].aspected_size[ax]))
        m == CHOOSE i \in 1..Len(els) : \A j \in 1..Len(els) : RLe(high(j), high(i))
    IN  high(m)

\* C27: in Group mode the box given to the frame-level filters is the exact
\* union of the elements' boxes: on each axis its low edge is the least
\* offset position minus half the aspected size and its high edge the
\* greatest offset position plus half the aspected size, also for boxes at
\* negative coordinates.
C27_GroupUnionExact ==
    (frame.mode = "GROUP" /\ Len(frame.els) > 0)
        => \A ax \in 1..2 :
              LET lo == UnionLow(frame.els, ax)
                  hi == UnionHigh(frame.els, ax)
              IN  /\ frame.fed.center[ax] = RHalf(RAdd(lo, hi))
                  /\ frame.fed.size[ax] = RSub(hi, lo)

\* C29: after a tick of duration dt the motion-predicted position of a track
\* is its base plus velocity x motionPredictionGain x dt, where the base is
\* the element's previous motion-predicted position if the track's age,
\* after the tick's aging, is strictly above dt, and the track's detected
\* position otherwise: the first tick after a match restarts from the
\* detection, later ticks go on from the last prediction.
C29_MotionPrediction ==
    [][ VideoTick =>
          LET units == track_frequency_counter' - track_frequency_counter
              dt == Rat(units, TimeUnit)
          IN  /\ DOMAIN mp_pos' = TrackIds(tracked_elements')
              /\ \A id \in TrackIds(tracked_elements') :
                    LET trck == TrackOf(tracked_elements', id)
                        base == IF trck.age > units THEN mp_pos[id]
                                ELSE RPos(trck.pos)
                        gain == motion_prediction
                    IN  /\ trck.age > units => id \in DOMAIN mp_pos
                        /\ \A ax \in 1..2 :
                              mp_pos'[id][ax] =
                                  RAdd(base[ax],
                                       RMul(RMul(RInt(trck.vel[ax]), gain), dt))
      ]_vars

\* C29 witness: after two ticks a moving track that was matched just before
\* them (its age is the two ticks) is predicted off its detected position:
\* the first tick restarted from the detection, the second went on from
\* the first one's prediction, half the velocity further each.
C29_Witness ==
    /\ motion_prediction = RInt(1)
    /\ \E i \in 1..Len(tracked_elements) :
          LET trck == tracked_elements[i]
          IN  /\ trck.age = 2
              /\ track_frequency_counter = 2
              /\ trck.vel = << 2, -1 >>
              /\ mp_pos[trck.id] =
                    << RAdd(RInt(trck.pos[1]), Rat(2 * 2, TimeUnit)),
                       RAdd(RInt(trck.pos[2]), Rat(-1 * 2, TimeUnit)) >>

\* The track of this identity and its predicted element are gone.
Gone(id) ==
    /\ id \notin TrackIds(tracked_elements)
    /\ id \notin predicted_elements

\* C25: with a period 0 < f < 1 s and ticks of positive duration that keep
\* coming, every track that no detection matches again is eventually
\* removed from the store, together with its predicted element.
C25_UnmatchedEventuallyEvicted ==
    (/\ 0 < track_frequency
     /\ track_frequency < TimeUnit
     /\ tracked_elements # << >>) ~> (\A id \in 1..(next_id - 1) : Gone(id))

\* C25 witness: under such a period a store that held tracks, one of them
\* with no age at the start, has been emptied by more than one tick, and the
\* predicted elements with it.
C25_Witness ==
    /\ 0 < track_frequency
    /\ track_frequency < TimeUnit
    /\ next_id > 1
    /\ track_frequency_counter > 1
    /\ tracked_elements = << >>
    /\ predicted_elements = {}

\* C30: at most one backend is loaded at any time, and a loaded backend is
\* unloaded before another one is loaded, whatever the switch requests were
\* and also after a pending switch task was cancelled: when a switch task
\* has passed its unload step and is about to load the backend of _provider,
\* no backend is loaded.
C30_UnloadedBeforeLoad ==
    \A w \in Workers :
        (wpc[w] = "t_load" /\ provider = "NVIDIA_FACEDETECTION") => ~nvidia_fx

\* C31: whatever the detection period is, a track is not evicted before its
\* age has reached one period: every track that a tick removes has, with
\* the tick's duration added, an age of at least _track_frequency.
C31_SurvivesOnePeriod ==
    [][ VideoTick =>
          LET dt == track_frequency_counter' - track_frequency_counter
          IN  \A i \in 1..Len(tracked_elements) :
                 tracked_elements[i].id \notin TrackIds(tracked_elements')
                     => tracked_elements[i].age + dt >= track_frequency
      ]_vars

FrameFilters == {"pos_x", "pos_y", "size_x", "size_y"}

\* C32: update() changes no tracked element (not its position, size,
\* velocity, age or confidence, nor which elements there are) and keeps the
\* estimate of every filter of every predicted element and of every
\* frame-level filter; each filter is a new one, with the initial error
\* covariance, seeded with the estimate of the one it replaces.
C32_UpdateKeepsEstimates ==
    [][ FrameUpdate =>
          /\ tracked_elements' = tracked_elements
          /\ predicted_elements' = predicted_elements
          /\ Len(frame'.els) = Len(frame.els)
          /\ \A i \in 1..Len(frame.els), f \in FrameFilters :
                /\ KalmanGet(frame'.els[i].filters[f]) = KalmanGet(frame.els[i].filters[f])
                /\ frame'.els[i].filters[f].p = RInt(ST_KALMAN_EEC)
          /\ \A f \in FrameFilters :
                /\ KalmanGet(frame'[f]) = KalmanGet(frame[f])
                /\ frame'[f].p = RInt(ST_KALMAN_EEC)
      ]_vars

\* C32 witness: an update has re-created the filters with the noise of full
\* smoothing and full stability; a moving track of age 3 is in the store,
\* its element's position filter holds the track's position, and the
\* frame-level filters hold an estimate a tick had moved off the
\* constructor's 1.
C32_Witness ==
    /\ track_frequency_counter = 0
    /\ frame.pos_x.q = Rat(1, 100000)
    /\ frame.pos_x.p = RInt(ST_KALMAN_EEC)
    /\ KalmanGet(frame.pos_x) # RInt(1)
    /\ \E i \in 1..Len(tracked_elements) :
          /\ tracked_elements[i].age = 3
          /\ tracked_elements[i].vel # << 0, 0 >>
          /\ frame.els[i].filters["pos_x"].q = Rat(1, 100000)
          /\ frame.els[i].filters["pos_x"].r = RInt(1000)
          /\ KalmanGet(frame.els[i].filters["pos_x"]) = RInt(tracked_elements[i].pos[1])

====
